---------------------------- MODULE Spec2Model ----------------------------
(***************************************************************************)
(* A model of the daemon_console crate: the TerminalApp console           *)
(* (src/src/lib.rs) and its command dispatch (src/src/command.rs).        *)
(*                                                                         *)
(* Strings are sequences of one-character strings.  Option<T> is a        *)
(* sequence of length at most one: None is <<>> and Some(x) is <<x>>.     *)
(* A HashMap is a function whose domain is the set of its keys.           *)
(***************************************************************************)
EXTENDS Naturals, Integers, Sequences, FiniteSets, TLC

(***************************************************************************)
(* Bounds of the model.                                                    *)
(***************************************************************************)
\* the longest line the user types
MaxLen == 2
\* the most lines the user submits
MaxHist == 2
\* clock ticks per second (Instant is finer than a second)
TicksPerSec == 2
\* the clock stops after this many seconds
MaxSecs == 6
\* the most lines the user submits while run() loops
MaxSubmits == 1
\* the most handlers ever boxed for registration
MaxRegs == 2
\* the deepest nesting of dispatches issued by executing handlers
MaxDepth == 2
\* the most messages waiting in a channel
MaxQueue == 2
\* the most tasks ever spawned
MaxTasks == 2
\* the most lines submitted when the history is browsed
MaxLines == 3

(***************************************************************************)
(* Program constants.                                                      *)
(***************************************************************************)
\* handle_ctrl_c: last_time.elapsed().as_secs() < 5
CtrlCWindowSecs == 5

None == <<>>
Some(x) == <<x>>

\* the characters the user can type in the model
Chars == {"a", "b", " "}
\* the names commands are registered under
Names == {<<"a">>, <<"b">>}
Levels == {"Info", "Debug", "Warn", "Error", "Critical"}

(***************************************************************************)
(* Pure helpers.                                                           *)
(***************************************************************************)
EmptyMap == [x \in {} |-> 0]
\* HashMap::insert
Put(m, k, v) == [x \in (DOMAIN m) \cup {k} |-> IF x = k THEN v ELSE m[x]]
\* HashMap::remove
Del(m, k) == [x \in (DOMAIN m) \ {k} |-> m[x]]

\* Vec<char>::insert(i, c), i a 0-based index
InsertAt(s, i, c) == SubSeq(s, 1, i) \o <<c>> \o SubSeq(s, i + 1, Len(s))

\* TerminalApp::remove_char_at(index), index 0-based
RemoveCharAt(s, index) ==
    IF index < Len(s)
    THEN SubSeq(s, 1, index) \o SubSeq(s, index + 2, Len(s))
    ELSE s

\* is_empty() without the trim
IsEmptyUntrimmed(s) == s = <<>>

\* str::trim().is_empty()
TrimIsEmpty(s) == \A i \in 1..Len(s) : s[i] = " "

\* str::split_whitespace().collect::<Vec<&str>>()
RECURSIVE SplitFrom(_, _, _)
SplitFrom(s, i, cur) ==
    IF i > Len(s)
    THEN (IF cur = <<>> THEN <<>> ELSE <<cur>>)
    ELSE IF s[i] = " "
         THEN (IF cur = <<>> THEN SplitFrom(s, i + 1, <<>>)
                             ELSE <<cur>> \o SplitFrom(s, i + 1, <<>>))
         ELSE SplitFrom(s, i + 1, Append(cur, s[i]))
SplitWhitespace(s) == SplitFrom(s, 1, <<>>)

\* Duration::as_secs of a duration given in clock ticks
AsSecs(ticks) == ticks \div TicksPerSec

VARIABLES
    \* TerminalApp fields
    current_input, cursor_position, command_history, history_index,
    last_ctrl_c, last_key_event, should_exit,
    commands, unknown_command_handler, async_unknown_command_handler,
    dispatch_event,
    running_commands,
    \* the channels: action channel, the event subscriber's unread events,
    \* the command result channel
    actionq, subscribed, subq, resultq,
    \* the spawned tokio tasks
    tasks,
    \* the sync handlers being executed (innermost last)
    stack,
    \* where run() is, the terminal's mode, the clock
    pc, term, now,
    \* what the last operation wrote to stdout and returned
    out, ret,
    \* history of the run: the last dispatch, the last finished sync call,
    \* the handler most recently registered under each name, the number of
    \* handlers boxed so far, the tasks whose result was printed
    dres, lastCall, lastReg, nextId, printed

edVars   == <<current_input, cursor_position, command_history, history_index>>
keyVars  == <<last_ctrl_c, last_key_event, should_exit>>
regVars  == <<commands, unknown_command_handler, async_unknown_command_handler,
              lastReg, nextId>>
busVars  == <<actionq, dispatch_event, subscribed, subq>>
taskVars == <<running_commands, tasks, resultq, printed>>
callVars == <<stack, dres, lastCall>>
loopVars == <<pc, term>>
obsVars  == <<out, ret>>
vars == <<edVars, keyVars, regVars, busVars, taskVars, callVars, loopVars,
          now, obsVars>>

NoRet == [op |-> "none", quit |-> FALSE, msg |-> ""]
NoDispatch == [line |-> <<>>, by |-> {}, h |-> 0, depth |-> 0]
NoCall == [name |-> <<>>, h |-> 0, regd |-> {}]

\* TerminalApp::new
Init ==
    /\ current_input = <<>>
    /\ cursor_position = 0
    /\ command_history = <<>>
    /\ history_index = None
    /\ last_ctrl_c = None
    /\ last_key_event = None
    /\ should_exit = FALSE
    /\ commands = EmptyMap
    /\ unknown_command_handler = None
    /\ async_unknown_command_handler = None
    /\ dispatch_event = TRUE
    /\ running_commands = <<>>
    /\ actionq = <<>>
    /\ subscribed = FALSE
    /\ subq = <<>>
    /\ resultq = <<>>
    /\ tasks = <<>>
    /\ stack = <<>>
    /\ pc = "init"
    /\ term = [raw |-> FALSE, mouse |-> FALSE]
    /\ now = 0
    /\ out = <<>>
    /\ ret = NoRet
    /\ dres = NoDispatch
    /\ lastCall = NoCall
    /\ lastReg = [n \in Names |-> 0]
    /\ nextId = 1
    /\ printed = <<>>


(***************************************************************************)
(* Terminal output, key events, console events.                           *)
(***************************************************************************)
\* one line written to stdout
Line(k, lv, txt, line, by, task) ==
    [k |-> k, lv |-> lv, txt |-> txt, line |-> line, by |-> by, task |-> task]
\* print_log_entry called on the context of task i, from that task
TaskLogLine(i, level, msg) == Line("tasklog", level, msg, <<>>, {}, i)
\* print_log_entry of a formatted log message
LogLine(level, msg) == Line("log", level, msg, <<>>, {}, 0)
\* handle_enter_key: the echo of the submitted line
EchoLine(line) == Line("echo", "", "", line, {}, 0)
\* handle_enter_key: the output of the dispatch, by who produced it
OutputLine(by) == Line("output", "", "", <<>>, by, 0)
\* handle_command_result: the output of a finished task
ResultLine(task) == Line("result", "", "", <<>>, {}, task)

\* crossterm KeyEvent {code, modifiers, kind}; ch is the char of KeyCode::Char
Key(code, ch, mods, kind) == [code |-> code, ch |-> ch, mods |-> mods, kind |-> kind]
Press(code) == Key(code, "", "NONE", "Press")
CharKey(c) == Key("Char", c, "NONE", "Press")
CtrlCKey == Key("Char", "c", "CONTROL", "Press")
CtrlDKey == Key("Char", "d", "CONTROL", "Press")

IsCtrlC(ev) == ev.code = "Char" /\ ev.ch = "c" /\ ev.mods = "CONTROL"
IsCtrlD(ev) == ev.code = "Char" /\ ev.ch = "d" /\ ev.mods = "CONTROL"

\* DaemonConsoleEvent
UserConsoleInput(raw) == [t |-> "UserConsoleInput", level |-> "", raw |-> raw, msg |-> ""]
TerminalLog(level, msg) == [t |-> "TerminalLog", level |-> level, raw |-> <<>>, msg |-> msg]

\* broadcast::channel(256)
EventCap == 256

\* emit_events on a channel that refuses a new event when it is full
EmitEventsKeepOldest(q, ev) ==
    IF ~subscribed THEN q
    ELSE IF Len(q) < EventCap THEN Append(q, ev)
    ELSE q

\* TerminalApp::emit_events: the subscriber's unread events after a send;
\* a send with no receiver fails and the failure is dropped.
EmitEvents(q, ev) ==
    IF ~subscribed THEN q
    ELSE IF Len(q) < EventCap THEN Append(q, ev)
    ELSE Append(Tail(q), ev)

(***************************************************************************)
(* Key handlers of process_event that touch only the editor.              *)
(***************************************************************************)
\* what a key other than Enter leaves alone
keyFrame == <<should_exit, regVars, busVars, taskVars, callVars>>

Returned(op, quit, msg) == [op |-> op, quit |-> quit, msg |-> msg]

\* handle_ctrl_c: the window test with <= in place of <
WithinWindowInclusive(last_time) == AsSecs(now - last_time) <= CtrlCWindowSecs

\* handle_ctrl_c: last_time.elapsed().as_secs() < 5
WithinWindow(last_time) == AsSecs(now - last_time) < CtrlCWindowSecs

\* handle_ctrl_d answering "do not quit"
HandleCtrlDNoQuit ==
    /\ ret' = Returned("ctrl_d", FALSE, "")
    /\ out' = <<>>
    /\ UNCHANGED <<edVars, last_ctrl_c>>

\* TerminalApp::handle_ctrl_d
HandleCtrlD ==
    /\ ret' = Returned("ctrl_d", TRUE, "")
    /\ out' = <<>>
    /\ UNCHANGED <<edVars, last_ctrl_c>>

\* handle_ctrl_c that ends the browsing when it clears the input line
HandleCtrlCEndsBrowsing ==
    IF current_input # <<>>
    THEN /\ current_input' = <<>>
         /\ cursor_position' = 0
         /\ history_index' = None
         /\ last_ctrl_c' = Some(now)
         /\ ret' = Returned("ctrl_c", FALSE, "input_cleared")
         /\ out' = <<LogLine("Info", "input_cleared")>>
         /\ UNCHANGED command_history
    ELSE IF last_ctrl_c # None /\ WithinWindow(last_ctrl_c[1])
    THEN /\ ret' = Returned("ctrl_c", TRUE, "goodbye")
         /\ out' = <<LogLine("Warn", "goodbye")>>
         /\ UNCHANGED <<edVars, last_ctrl_c>>
    ELSE /\ last_ctrl_c' = Some(now)
         /\ ret' = Returned("ctrl_c", FALSE, "press_again")
         /\ out' = <<LogLine("Info", "press_again")>>
         /\ UNCHANGED edVars

\* handle_ctrl_c with the window test made before the buffer test
HandleCtrlCWindowFirst ==
    IF last_ctrl_c # None /\ WithinWindow(last_ctrl_c[1])
    THEN /\ ret' = Returned("ctrl_c", TRUE, "goodbye")
         /\ out' = <<LogLine("Warn", "goodbye")>>
         /\ UNCHANGED <<edVars, last_ctrl_c>>
    ELSE IF current_input # <<>>
    THEN /\ current_input' = <<>>
         /\ cursor_position' = 0
         /\ last_ctrl_c' = Some(now)
         /\ ret' = Returned("ctrl_c", FALSE, "input_cleared")
         /\ out' = <<LogLine("Info", "input_cleared")>>
         /\ UNCHANGED <<command_history, history_index>>
    ELSE /\ last_ctrl_c' = Some(now)
         /\ ret' = Returned("ctrl_c", FALSE, "press_again")
         /\ out' = <<LogLine("Info", "press_again")>>
         /\ UNCHANGED edVars

\* TerminalApp::handle_ctrl_c, and the print of its message in process_event
HandleCtrlC ==
    IF current_input # <<>>
    THEN /\ current_input' = <<>>
         /\ cursor_position' = 0
         /\ last_ctrl_c' = Some(now)
         /\ ret' = Returned("ctrl_c", FALSE, "input_cleared")
         /\ out' = <<LogLine("Info", "input_cleared")>>
         /\ UNCHANGED <<command_history, history_index>>
    ELSE IF last_ctrl_c # None /\ WithinWindow(last_ctrl_c[1])
    THEN /\ ret' = Returned("ctrl_c", TRUE, "goodbye")
         /\ out' = <<LogLine("Warn", "goodbye")>>
         /\ UNCHANGED <<edVars, last_ctrl_c>>
    ELSE /\ last_ctrl_c' = Some(now)
         /\ ret' = Returned("ctrl_c", FALSE, "press_again")
         /\ out' = <<LogLine("Info", "press_again")>>
         /\ UNCHANGED edVars

\* handle_up_key that goes on from the oldest entry to an index behind the
\* newest one, with an empty input line
HandleUpKeyWrap ==
    /\ IF command_history = <<>>
       THEN UNCHANGED edVars
       ELSE IF history_index # None /\ history_index[1] = 0
       THEN /\ history_index' = Some(Len(command_history))
            /\ current_input' = <<>>
            /\ cursor_position' = 0
            /\ UNCHANGED command_history
       ELSE LET new_index == IF history_index # None
                             THEN history_index[1] - 1
                             ELSE Len(command_history) - 1
            IN /\ history_index' = Some(new_index)
               /\ current_input' = command_history[new_index + 1]
               /\ cursor_position' = Len(command_history[new_index + 1])
               /\ UNCHANGED command_history
    /\ ret' = Returned("Up", FALSE, "")
    /\ out' = <<>>
    /\ UNCHANGED last_ctrl_c

\* handle_up_key starting to browse at the oldest entry
HandleUpKeyFromOldest ==
    /\ IF command_history = <<>>
       THEN UNCHANGED edVars
       ELSE IF history_index # None /\ history_index[1] = 0
       THEN UNCHANGED edVars
       ELSE LET new_index == IF history_index # None
                             THEN history_index[1] - 1
                             ELSE 0
            IN /\ history_index' = Some(new_index)
               /\ current_input' = command_history[new_index + 1]
               /\ cursor_position' = Len(command_history[new_index + 1])
               /\ UNCHANGED command_history
    /\ ret' = Returned("Up", FALSE, "")
    /\ out' = <<>>
    /\ UNCHANGED last_ctrl_c

\* TerminalApp::handle_up_key
HandleUpKey ==
    /\ IF command_history = <<>>
       THEN UNCHANGED edVars
       ELSE IF history_index # None /\ history_index[1] = 0
       THEN UNCHANGED edVars
       ELSE LET new_index == IF history_index # None
                             THEN history_index[1] - 1
                             ELSE Len(command_history) - 1
            IN /\ history_index' = Some(new_index)
               /\ current_input' = command_history[new_index + 1]
               /\ cursor_position' = Len(command_history[new_index + 1])
               /\ UNCHANGED command_history
    /\ ret' = Returned("Up", FALSE, "")
    /\ out' = <<>>
    /\ UNCHANGED last_ctrl_c

\* handle_down_key that stays at the newest entry
HandleDownKeyClamped ==
    /\ IF history_index = None
       THEN UNCHANGED edVars
       ELSE IF history_index[1] < Len(command_history) - 1
       THEN LET new_index == history_index[1] + 1
            IN /\ history_index' = Some(new_index)
               /\ current_input' = command_history[new_index + 1]
               /\ cursor_position' = Len(command_history[new_index + 1])
               /\ UNCHANGED command_history
       ELSE UNCHANGED edVars
    /\ ret' = Returned("Down", FALSE, "")
    /\ out' = <<>>
    /\ UNCHANGED last_ctrl_c

\* TerminalApp::handle_down_key
HandleDownKey ==
    /\ IF history_index = None
       THEN UNCHANGED edVars
       ELSE IF history_index[1] < Len(command_history) - 1
       THEN LET new_index == history_index[1] + 1
            IN /\ history_index' = Some(new_index)
               /\ current_input' = command_history[new_index + 1]
               /\ cursor_position' = Len(command_history[new_index + 1])
               /\ UNCHANGED command_history
       ELSE /\ history_index' = None
            /\ current_input' = <<>>
            /\ cursor_position' = 0
            /\ UNCHANGED command_history
    /\ ret' = Returned("Down", FALSE, "")
    /\ out' = <<>>
    /\ UNCHANGED last_ctrl_c

\* process_event, KeyCode::Left
KeyLeft ==
    /\ cursor_position' = IF cursor_position > 0 THEN cursor_position - 1
                          ELSE cursor_position
    /\ ret' = Returned("Left", FALSE, "")
    /\ out' = <<>>
    /\ UNCHANGED <<current_input, command_history, history_index, last_ctrl_c>>

\* process_event, KeyCode::Right without its bound check
KeyRightUnclamped ==
    /\ cursor_position' = cursor_position + 1
    /\ ret' = Returned("Right", FALSE, "")
    /\ out' = <<>>
    /\ UNCHANGED <<current_input, command_history, history_index, last_ctrl_c>>

\* process_event, KeyCode::Right
KeyRight ==
    /\ cursor_position' = IF cursor_position < Len(current_input)
                          THEN cursor_position + 1
                          ELSE cursor_position
    /\ ret' = Returned("Right", FALSE, "")
    /\ out' = <<>>
    /\ UNCHANGED <<current_input, command_history, history_index, last_ctrl_c>>

\* handle_char_input that puts the character behind the last one
HandleCharInputAtEnd(c) ==
    /\ current_input' = Append(current_input, c)
    /\ cursor_position' = cursor_position + 1
    /\ ret' = Returned("Char", FALSE, "")
    /\ out' = <<>>
    /\ UNCHANGED <<command_history, history_index, last_ctrl_c>>

\* TerminalApp::handle_char_input
HandleCharInput(c) ==
    LET char_count == Len(current_input)
        pos == IF cursor_position > char_count THEN char_count
               ELSE cursor_position
    IN /\ current_input' = InsertAt(current_input, pos, c)
       /\ cursor_position' = pos + 1
       /\ ret' = Returned("Char", FALSE, "")
       /\ out' = <<>>
       /\ UNCHANGED <<command_history, history_index, last_ctrl_c>>

\* process_event, KeyCode::Backspace
KeyBackspace ==
    /\ IF cursor_position > 0
       THEN /\ current_input' = RemoveCharAt(current_input, cursor_position - 1)
            /\ cursor_position' = cursor_position - 1
       ELSE UNCHANGED <<current_input, cursor_position>>
    /\ ret' = Returned("Backspace", FALSE, "")
    /\ out' = <<>>
    /\ UNCHANGED <<command_history, history_index, last_ctrl_c>>

(***************************************************************************)
(* The command registry and execute_command.                              *)
(***************************************************************************)
SyncHandler(h) == [kind |-> "sync", id |-> h]
AsyncHandler(h) == [kind |-> "async", id |-> h]

\* register_command that keeps the handler a name is already bound to
RegisterCommandIfAbsent(name, h) ==
    /\ commands' = IF name \in DOMAIN commands THEN commands
                   ELSE Put(commands, name, SyncHandler(h))
    /\ lastReg' = [lastReg EXCEPT ![name] = h]

\* TerminalApp::register_command
RegisterCommand(name, h) ==
    /\ commands' = Put(commands, name, SyncHandler(h))
    /\ lastReg' = [lastReg EXCEPT ![name] = h]

\* TerminalApp::register_async_command
RegisterAsyncCommand(name, h) ==
    /\ commands' = Put(commands, name, AsyncHandler(h))
    /\ lastReg' = [lastReg EXCEPT ![name] = h]

Frame(name, h) == [name |-> name, h |-> h, regd |-> {}]
Dispatched(line, by, h) == [line |-> line, by |-> by, h |-> h, depth |-> Len(stack)]

\* spawn_async_command: temp_app = TerminalApp::new(), the context the
\* handler of a task is given; of its fields, those a handler can change
FreshContext == [should_exit |-> FALSE, commands |-> {}]

\* TerminalApp::spawn_async_command: the task starts running, the tracker
\* records its handle
SpawnAsyncCommand(command, h) ==
    /\ tasks' = Append(tasks, [cmd |-> command, h |-> h, st |-> "running",
                                ctx |-> FreshContext])
    /\ running_commands' = Append(running_commands, Len(tasks) + 1)

\* execute_command, PubSync: the binding is left in the registry for the call
ExecSyncInPlace(line, cmd_name) ==
    /\ stack' = Append(stack, Frame(cmd_name, commands[cmd_name].id))
    /\ dres' = Dispatched(line, {"sync"}, commands[cmd_name].id)
    /\ UNCHANGED <<commands, tasks, running_commands>>

\* execute_command, PubSync: the handler is removed and starts executing
ExecSync(line, cmd_name) ==
    /\ commands' = Del(commands, cmd_name)
    /\ stack' = Append(stack, Frame(cmd_name, commands[cmd_name].id))
    /\ dres' = Dispatched(line, {"sync"}, commands[cmd_name].id)
    /\ UNCHANGED <<tasks, running_commands>>

\* execute_command, PubAsync: the handler itself is moved into the task
ExecAsyncMoved(line, cmd_name) ==
    /\ SpawnAsyncCommand(line, commands[cmd_name].id)
    /\ commands' = Del(commands, cmd_name)
    /\ dres' = Dispatched(line, {"spawn"}, commands[cmd_name].id)
    /\ UNCHANGED stack

\* execute_command, PubAsync: a clone of the handler is spawned
ExecAsync(line, cmd_name) ==
    /\ SpawnAsyncCommand(line, commands[cmd_name].id)
    /\ dres' = Dispatched(line, {"spawn"}, commands[cmd_name].id)
    /\ UNCHANGED <<commands, stack>>

\* execute_command, no match: the sync hook is asked first
UnknownProducersSyncFirst ==
    IF unknown_command_handler # None THEN {"sync_unknown"}
    ELSE IF async_unknown_command_handler # None THEN {"async_unknown"}
    ELSE {"builtin"}

\* execute_command, no match: who produces the output
UnknownProducers ==
    IF async_unknown_command_handler # None THEN {"async_unknown"}
    ELSE IF unknown_command_handler # None THEN {"sync_unknown"}
    ELSE {"builtin"}

\* command::execute_command
ExecuteCommand(line) ==
    LET parts == SplitWhitespace(line)
    IN IF parts = <<>>
       THEN /\ dres' = Dispatched(line, {}, 0)
            /\ UNCHANGED <<commands, stack, tasks, running_commands>>
       ELSE IF parts[1] \in DOMAIN commands
       THEN IF commands[parts[1]].kind = "sync"
            THEN ExecSync(line, parts[1])
            ELSE ExecAsync(line, parts[1])
       ELSE /\ dres' = Dispatched(line, UnknownProducers, 0)
            /\ UNCHANGED <<commands, stack, tasks, running_commands>>

\* handle_enter_key after execute_command has returned: print the output,
\* reset the editor, return should_exit
EnterTail(lines) ==
    /\ out' = lines
    /\ current_input' = <<>>
    /\ cursor_position' = 0
    /\ history_index' = None
    /\ ret' = Returned("Enter", should_exit, "")

\* the submitted line put in front of the history
PushHistoryFront(history, line) == <<line>> \o history

\* handle_enter_key: self.command_history.push(self.current_input.clone())
PushHistory(history, line) == Append(history, line)

\* what handle_enter_key never touches
enterFrame == <<last_ctrl_c, should_exit, unknown_command_handler,
                async_unknown_command_handler, lastReg, nextId, actionq,
                dispatch_event, subscribed, resultq, printed, lastCall>>

\* handle_enter_key that dispatches the line before it is put in history
HandleEnterKeyDispatchFirst ==
    IF ~TrimIsEmpty(current_input)
    THEN /\ subq' = EmitEvents(subq, UserConsoleInput(current_input))
         /\ ExecuteCommand(current_input)
         /\ IF stack' # <<>>
            THEN /\ out' = <<EchoLine(current_input)>>
                 /\ UNCHANGED <<current_input, cursor_position, history_index,
                                ret, command_history>>
            ELSE /\ EnterTail(<<EchoLine(current_input), OutputLine(dres'.by)>>)
                 /\ command_history' = PushHistory(command_history, current_input)
         /\ UNCHANGED enterFrame
    ELSE /\ out' = <<>>
         /\ ret' = Returned("Enter", should_exit, "")
         /\ UNCHANGED <<edVars, keyFrame, last_ctrl_c>>

\* TerminalApp::handle_enter_key; when the line names a sync command the
\* call is still in the handler after this step
HandleEnterKey ==
    IF ~TrimIsEmpty(current_input)
    THEN /\ command_history' = PushHistory(command_history, current_input)
         /\ subq' = EmitEvents(subq, UserConsoleInput(current_input))
         /\ ExecuteCommand(current_input)
         /\ IF stack' # <<>>
            THEN /\ out' = <<EchoLine(current_input)>>
                 /\ UNCHANGED <<current_input, cursor_position, history_index, ret>>
            ELSE EnterTail(<<EchoLine(current_input), OutputLine(dres'.by)>>)
         /\ UNCHANGED enterFrame
    ELSE /\ out' = <<>>
         /\ ret' = Returned("Enter", should_exit, "")
         /\ UNCHANGED <<edVars, keyFrame, last_ctrl_c>>

(***************************************************************************)
(* process_event.                                                          *)
(***************************************************************************)
\* process_event without the test of KeyEventKind::Release
ProcessEventAnyKind(ev) ==
    IF /\ last_key_event # None
       /\ last_key_event[1].code = ev.code
       /\ last_key_event[1].ch = ev.ch
       /\ last_key_event[1].mods = ev.mods
       /\ last_key_event[1].kind = ev.kind
       /\ ~(IsCtrlC(ev) \/ IsCtrlD(ev))
    THEN /\ ret' = Returned("Repeat", FALSE, "")
         /\ out' = <<>>
         /\ UNCHANGED <<edVars, keyVars, keyFrame>>
    ELSE /\ last_key_event' = IF IsCtrlC(ev) \/ IsCtrlD(ev) THEN Some(ev)
                              ELSE last_key_event
         /\ CASE IsCtrlD(ev) -> HandleCtrlD /\ UNCHANGED keyFrame
              [] IsCtrlC(ev) -> HandleCtrlC /\ UNCHANGED keyFrame
              [] ev.code = "Up" -> HandleUpKey /\ UNCHANGED keyFrame
              [] ev.code = "Down" -> HandleDownKey /\ UNCHANGED keyFrame
              [] ev.code = "Left" -> KeyLeft /\ UNCHANGED keyFrame
              [] ev.code = "Right" -> KeyRight /\ UNCHANGED keyFrame
              [] ev.code = "Enter" -> HandleEnterKey
              [] ev.code = "Char" /\ ~IsCtrlC(ev) /\ ~IsCtrlD(ev) ->
                     HandleCharInput(ev.ch) /\ UNCHANGED keyFrame
              [] ev.code = "Backspace" -> KeyBackspace /\ UNCHANGED keyFrame
              [] OTHER -> /\ ret' = Returned("Other", FALSE, "")
                          /\ out' = <<>>
                          /\ UNCHANGED <<edVars, last_ctrl_c, keyFrame>>

\* TerminalApp::process_event, all but where run() goes next
ProcessEvent(ev) ==
    IF ev.kind = "Release"
    THEN /\ ret' = Returned("Release", FALSE, "")
         /\ out' = <<>>
         /\ UNCHANGED <<edVars, keyVars, keyFrame>>
    ELSE IF /\ last_key_event # None
            /\ last_key_event[1].code = ev.code
            /\ last_key_event[1].ch = ev.ch
            /\ last_key_event[1].mods = ev.mods
            /\ last_key_event[1].kind = ev.kind
            /\ ~(IsCtrlC(ev) \/ IsCtrlD(ev))
    THEN /\ ret' = Returned("Repeat", FALSE, "")
         /\ out' = <<>>
         /\ UNCHANGED <<edVars, keyVars, keyFrame>>
    ELSE /\ last_key_event' = IF IsCtrlC(ev) \/ IsCtrlD(ev) THEN Some(ev)
                              ELSE last_key_event
         /\ CASE IsCtrlD(ev) -> HandleCtrlD /\ UNCHANGED keyFrame
              [] IsCtrlC(ev) -> HandleCtrlC /\ UNCHANGED keyFrame
              [] ev.code = "Up" -> HandleUpKey /\ UNCHANGED keyFrame
              [] ev.code = "Down" -> HandleDownKey /\ UNCHANGED keyFrame
              [] ev.code = "Left" -> KeyLeft /\ UNCHANGED keyFrame
              [] ev.code = "Right" -> KeyRight /\ UNCHANGED keyFrame
              [] ev.code = "Enter" -> HandleEnterKey
              [] ev.code = "Char" /\ ~IsCtrlC(ev) /\ ~IsCtrlD(ev) ->
                     HandleCharInput(ev.ch) /\ UNCHANGED keyFrame
              [] ev.code = "Backspace" -> KeyBackspace /\ UNCHANGED keyFrame
              [] OTHER -> /\ ret' = Returned("Other", FALSE, "")
                          /\ out' = <<>>
                          /\ UNCHANGED <<edVars, last_ctrl_c, keyFrame>>

(***************************************************************************)
(* The user at the keyboard and the host program before run().            *)
(***************************************************************************)
\* the line names an async command: its dispatch spawns a task
Spawns(line) ==
    LET parts == SplitWhitespace(line)
    IN /\ parts # <<>>
       /\ parts[1] \in DOMAIN commands
       /\ commands[parts[1]].kind = "async"

\* the keys the model's user presses, within the model's bounds
CanPress(ev, maxlen, maxhist) ==
    /\ ev.code = "Char" /\ ~IsCtrlC(ev) /\ ~IsCtrlD(ev) => Len(current_input) < maxlen
    /\ ev.code = "Enter" /\ ~TrimIsEmpty(current_input) =>
           /\ Len(command_history) < maxhist
           /\ Spawns(current_input) => Len(tasks) < MaxTasks

\* a direct call of the public process_event, as a test makes it
CallProcessEvent(ev) ==
    /\ pc = "init"
    /\ stack = <<>>
    /\ ProcessEvent(ev)
    /\ UNCHANGED <<loopVars, now>>

\* time passes
Tick ==
    /\ now < MaxSecs * TicksPerSec
    /\ now' = now + 1
    /\ UNCHANGED <<edVars, keyVars, regVars, busVars, taskVars, callVars,
                   loopVars, obsVars>>

EditKeys ==
    {CharKey(c) : c \in {"a", " "}} \cup
    {Press(k) : k \in {"Backspace", "Left", "Right", "Up", "Down", "Enter"}} \cup
    {CtrlCKey}

\* the console under any sequence of key events
NextEdit ==
    \E ev \in EditKeys :
        CanPress(ev, MaxLen, MaxHist) /\ CallProcessEvent(ev)

SpecEdit == Init /\ [][NextEdit]_vars

\* the console under Ctrl+C, typing and the passing of time
NextCtrlC ==
    \/ \E ev \in {CharKey("a"), CtrlCKey} :
           CanPress(ev, 1, 0) /\ CallProcessEvent(ev)
    \/ Tick

SpecCtrlC == Init /\ [][NextCtrlC]_vars

(***************************************************************************)
(* The host program before run(): registrations and hooks.                *)
(***************************************************************************)
hostFrame == <<edVars, keyVars, busVars, taskVars, callVars, loopVars, now,
               obsVars>>

\* a call of register_command with a newly boxed handler
HostRegister(name) ==
    /\ pc = "init" /\ stack = <<>>
    /\ nextId <= MaxRegs
    /\ RegisterCommand(name, nextId)
    /\ nextId' = nextId + 1
    /\ UNCHANGED <<unknown_command_handler, async_unknown_command_handler, hostFrame>>

\* a call of register_async_command with a newly boxed handler
HostRegisterAsync(name) ==
    /\ pc = "init" /\ stack = <<>>
    /\ nextId <= MaxRegs
    /\ RegisterAsyncCommand(name, nextId)
    /\ nextId' = nextId + 1
    /\ UNCHANGED <<unknown_command_handler, async_unknown_command_handler, hostFrame>>

\* TerminalApp::set_unknown_command_handler
HostSetUnknown ==
    /\ pc = "init" /\ stack = <<>>
    /\ unknown_command_handler' = Some("handler")
    /\ UNCHANGED <<commands, async_unknown_command_handler, lastReg, nextId, hostFrame>>

\* TerminalApp::set_async_unknown_command_handler
HostSetAsyncUnknown ==
    /\ pc = "init" /\ stack = <<>>
    /\ async_unknown_command_handler' = Some("handler")
    /\ UNCHANGED <<commands, unknown_command_handler, lastReg, nextId, hostFrame>>

\* TerminalApp::clear_unknown_command_handler
HostClearUnknown ==
    /\ pc = "init" /\ stack = <<>>
    /\ unknown_command_handler' = None
    /\ async_unknown_command_handler' = None
    /\ UNCHANGED <<commands, lastReg, nextId, hostFrame>>

(***************************************************************************)
(* A sync handler in execution: what it does to the console it is given.  *)
(***************************************************************************)
Top == stack[Len(stack)]
\* the handlers still executing when the innermost returns; what it
\* registered counts as registered during its caller's call too
Pop ==
    LET rest == SubSeq(stack, 1, Len(stack) - 1)
    IN IF rest = <<>> THEN rest
       ELSE [rest EXCEPT ![Len(rest)].regd = rest[Len(rest)].regd \cup Top.regd]
NoteRegistered(name) ==
    [stack EXCEPT ![Len(stack)].regd = stack[Len(stack)].regd \cup {name}]

handlerFrame == <<edVars, keyVars, unknown_command_handler,
                  async_unknown_command_handler, busVars, taskVars, dres,
                  lastCall, loopVars, now, obsVars>>

\* the executing handler calls app.register_command
HRegister(name) ==
    /\ stack # <<>>
    /\ nextId <= MaxRegs
    /\ RegisterCommand(name, nextId)
    /\ nextId' = nextId + 1
    /\ stack' = NoteRegistered(name)
    /\ UNCHANGED handlerFrame

\* the executing handler calls app.register_async_command
HRegisterAsync(name) ==
    /\ stack # <<>>
    /\ nextId <= MaxRegs
    /\ RegisterAsyncCommand(name, nextId)
    /\ nextId' = nextId + 1
    /\ stack' = NoteRegistered(name)
    /\ UNCHANGED handlerFrame

\* the executing handler dispatches a line itself (execute_command is public)
HDispatch(line) ==
    /\ stack # <<>>
    /\ Len(stack) < MaxDepth
    /\ Spawns(line) => Len(tasks) < MaxTasks
    /\ ExecuteCommand(line)
    /\ UNCHANGED <<edVars, keyVars, unknown_command_handler,
                   async_unknown_command_handler, lastReg, nextId, busVars,
                   resultq, printed, lastCall, loopVars, now, obsVars>>

\* the executing handler sets app.should_exit
HSetExit ==
    /\ stack # <<>>
    /\ ~should_exit
    /\ should_exit' = TRUE
    /\ UNCHANGED <<edVars, last_ctrl_c, last_key_event, regVars, busVars,
                   taskVars, callVars, loopVars, now, obsVars>>

\* execute_command, PubSync: commands.insert(cmd_name, sync_handler) after
\* the call
Checkin(cmds, name, h) == Put(cmds, name, SyncHandler(h))

\* run() with the answer of process_event ignored
AfterEventNoBreak(quit) == "check"

\* where run() goes when process_event has returned
AfterEvent(quit) == IF quit THEN "shutdown" ELSE "check"

\* the executing handler returns: execute_command puts it back; when it
\* was called for the submitted line, handle_enter_key and process_event
\* finish
HReturn ==
    /\ stack # <<>>
    /\ commands' = Checkin(commands, Top.name, Top.h)
    /\ stack' = Pop
    /\ lastCall' = [name |-> Top.name, h |-> Top.h, regd |-> Top.regd]
    /\ IF Len(stack) = 1
       THEN /\ EnterTail(<<OutputLine({"sync"})>>)
            /\ pc' = IF pc = "poll" THEN AfterEvent(should_exit) ELSE pc
            /\ UNCHANGED command_history
       ELSE UNCHANGED <<edVars, obsVars, pc>>
    /\ UNCHANGED <<keyVars, unknown_command_handler,
                   async_unknown_command_handler, lastReg, nextId, busVars,
                   taskVars, dres, term, now>>

(***************************************************************************)
(* Who holds a clone of the action sender.                                *)
(***************************************************************************)
\* AppAction
RegisterAction(name, h) == [t |-> "RegisterCommand", name |-> name, h |-> h, msg |-> ""]
LogAction(level, msg) == [t |-> level, name |-> <<>>, h |-> 0, msg |-> msg]

\* a holder of the action sender sends RegisterCommand(name, new handler)
SendRegister(name) ==
    /\ Len(actionq) < MaxQueue
    /\ nextId <= MaxRegs
    /\ actionq' = Append(actionq, RegisterAction(name, nextId))
    /\ nextId' = nextId + 1
    /\ UNCHANGED <<edVars, keyVars, commands, unknown_command_handler,
                   async_unknown_command_handler, lastReg, dispatch_event,
                   subscribed, subq, taskVars, callVars, loopVars, now, obsVars>>

(***************************************************************************)
(* TerminalApp::run.                                                       *)
(***************************************************************************)
\* run up to the loop: raw mode, mouse capture, the startup message
RunStart ==
    /\ pc = "init" /\ stack = <<>>
    /\ \E startup_message_empty \in BOOLEAN :
          out' = IF startup_message_empty THEN <<>>
                 ELSE <<LogLine("", "startup")>>
    /\ term' = [raw |-> TRUE, mouse |-> TRUE]
    /\ pc' = "drain"
    /\ UNCHANGED <<edVars, keyVars, regVars, busVars, taskVars, callVars,
                   now, ret>>

\* a direct log call whose event is published whatever dispatch_event is
LogCallUnguarded(level, msg, dispatch) ==
    /\ out' = <<LogLine(level, msg)>>
    /\ subq' = EmitEvents(subq, TerminalLog(level, msg))

\* a direct log call (info, debug, warn, error, critical): print the line,
\* then dispatch_log_events
LogCall(level, msg, dispatch) ==
    /\ out' = <<LogLine(level, msg)>>
    /\ subq' = IF dispatch THEN EmitEvents(subq, TerminalLog(level, msg))
               ELSE subq

\* handle_log_action without the second switch of dispatch_event
HandleLogActionLeftOff(a) ==
    /\ LogCall(a.t, a.msg, ~dispatch_event)
    /\ dispatch_event' = ~dispatch_event

\* handle_log_action without the switches of dispatch_event
HandleLogActionUnswitched(a) ==
    /\ LogCall(a.t, a.msg, dispatch_event)
    /\ dispatch_event' = dispatch_event

\* TerminalApp::handle_log_action: switch, log, switch back
HandleLogAction(a) ==
    LET switched == ~dispatch_event
    IN /\ LogCall(a.t, a.msg, switched)
       /\ dispatch_event' = ~switched

\* the drain loop takes RegisterCommand(name, handler)
DrainRegister ==
    /\ pc = "drain"
    /\ actionq # <<>>
    /\ Head(actionq).t = "RegisterCommand"
    /\ RegisterCommand(Head(actionq).name, Head(actionq).h)
    /\ actionq' = Tail(actionq)
    /\ out' = <<>>
    /\ ret' = Returned("RegisterCommand", FALSE, "")
    /\ UNCHANGED <<edVars, keyVars, unknown_command_handler,
                   async_unknown_command_handler, nextId, dispatch_event,
                   subscribed, subq, taskVars, callVars, loopVars, now>>

\* the drain loop takes a log action
DrainLog ==
    /\ pc = "drain"
    /\ actionq # <<>>
    /\ Head(actionq).t \in Levels
    /\ HandleLogAction(Head(actionq))
    /\ actionq' = Tail(actionq)
    /\ ret' = Returned("LogAction", FALSE, "")
    /\ UNCHANGED <<edVars, keyVars, regVars, subscribed, taskVars, callVars,
                   loopVars, now>>

\* the drain loop left after any number of actions, some still pending
DrainDoneEarly ==
    /\ pc = "drain"
    /\ pc' = "reap"
    /\ UNCHANGED <<edVars, keyVars, regVars, busVars, taskVars, callVars,
                   term, now, obsVars>>

\* try_recv finds the action channel empty
DrainDone ==
    /\ pc = "drain"
    /\ actionq = <<>>
    /\ pc' = "reap"
    /\ UNCHANGED <<edVars, keyVars, regVars, busVars, taskVars, callVars,
                   term, now, obsVars>>

\* is_finished that is never true of a task that has panicked
IsFinishedNoPanic(i) == tasks[i].st = "finished"

\* JoinHandle::is_finished
IsFinished(i) == tasks[i].st \in {"finished", "panicked"}

\* check_running_commands that removes the completed indices in ascending
\* order: after the first removal the later indices name the wrong entries
RECURSIVE RemoveAscending(_, _, _)
RemoveAscending(cmds, idx, k) ==
    IF k > Len(idx) THEN cmds
    ELSE RemoveAscending(IF idx[k] <= Len(cmds)
                         THEN SubSeq(cmds, 1, idx[k] - 1)
                                  \o SubSeq(cmds, idx[k] + 1, Len(cmds))
                         ELSE cmds,
                         idx, k + 1)

CheckRunningCommandsAscending ==
    /\ pc = "reap"
    /\ running_commands' =
           RemoveAscending(running_commands,
               SelectSeq([k \in 1..Len(running_commands) |-> k],
                         LAMBDA k : IsFinished(running_commands[k])), 1)
    /\ pc' = "result"
    /\ UNCHANGED <<edVars, keyVars, regVars, busVars, tasks, resultq, printed,
                   callVars, term, now, obsVars>>

\* TerminalApp::check_running_commands
CheckRunningCommands ==
    /\ pc = "reap"
    /\ running_commands' = SelectSeq(running_commands, LAMBDA i : ~IsFinished(i))
    /\ pc' = "result"
    /\ UNCHANGED <<edVars, keyVars, regVars, busVars, tasks, resultq, printed,
                   callVars, term, now, obsVars>>

\* run: after a result was printed the result channel is tried again
ResultPrintAgain ==
    /\ pc = "result"
    /\ resultq # <<>>
    /\ resultq' = Tail(resultq)
    /\ printed' = Append(printed, Head(resultq).task)
    /\ out' = IF Head(resultq).empty THEN <<>>
              ELSE <<ResultLine(Head(resultq).task)>>
    /\ ret' = Returned("CommandResult", FALSE, "")
    /\ pc' = "result"
    /\ UNCHANGED <<edVars, keyVars, regVars, busVars, running_commands, tasks,
                   callVars, term, now>>

\* run: the newest result in the channel is taken first
ResultPrintNewestFirst ==
    /\ pc = "result"
    /\ resultq # <<>>
    /\ resultq' = SubSeq(resultq, 1, Len(resultq) - 1)
    /\ printed' = Append(printed, resultq[Len(resultq)].task)
    /\ out' = IF resultq[Len(resultq)].empty THEN <<>>
              ELSE <<ResultLine(resultq[Len(resultq)].task)>>
    /\ ret' = Returned("CommandResult", FALSE, "")
    /\ pc' = "poll"
    /\ UNCHANGED <<edVars, keyVars, regVars, busVars, running_commands, tasks,
                   callVars, term, now>>

\* run: try_recv on the result channel gives a result, which is printed
ResultPrint ==
    /\ pc = "result"
    /\ resultq # <<>>
    /\ resultq' = Tail(resultq)
    /\ printed' = Append(printed, Head(resultq).task)
    /\ out' = IF Head(resultq).empty THEN <<>>
              ELSE <<ResultLine(Head(resultq).task)>>
    /\ ret' = Returned("CommandResult", FALSE, "")
    /\ pc' = "poll"
    /\ UNCHANGED <<edVars, keyVars, regVars, busVars, running_commands, tasks,
                   callVars, term, now>>

\* run: the loop waits for a result while the tracker is not empty
ResultNoneWaiting ==
    /\ pc = "result"
    /\ resultq = <<>>
    /\ running_commands = <<>>
    /\ pc' = "poll"
    /\ UNCHANGED <<edVars, keyVars, regVars, busVars, taskVars, callVars,
                   term, now, obsVars>>

\* run: try_recv on the result channel gives nothing
ResultNone ==
    /\ pc = "result"
    /\ resultq = <<>>
    /\ pc' = "poll"
    /\ UNCHANGED <<edVars, keyVars, regVars, busVars, taskVars, callVars,
                   term, now, obsVars>>

\* run: after the sleep, poll finds no terminal event
PollNone ==
    /\ pc = "poll" /\ stack = <<>>
    /\ pc' = "check"
    /\ UNCHANGED <<edVars, keyVars, regVars, busVars, taskVars, callVars,
                   term, now, obsVars>>

\* run: after the sleep, poll finds an event, which is read and processed
PollEvent(ev) ==
    /\ pc = "poll" /\ stack = <<>>
    /\ ProcessEvent(ev)
    /\ pc' = IF stack' # <<>> THEN "poll" ELSE AfterEvent(ret'.quit)
    /\ UNCHANGED <<term, now>>

\* run: if self.should_exit { break }
CheckExit ==
    /\ pc = "check"
    /\ pc' = IF should_exit THEN "shutdown" ELSE "drain"
    /\ UNCHANGED <<edVars, keyVars, regVars, busVars, taskVars, callVars,
                   term, now, obsVars>>

\* run after the loop: the terminal is restored, the exit message printed
Shutdown ==
    /\ pc = "shutdown"
    /\ term' = [raw |-> FALSE, mouse |-> FALSE]
    /\ \E exit_message_empty \in BOOLEAN :
          out' = IF exit_message_empty THEN <<>> ELSE <<LogLine("", "exit")>>
    /\ pc' = "done"
    /\ UNCHANGED <<edVars, keyVars, regVars, busVars, taskVars, callVars,
                   now, ret>>

(***************************************************************************)
(* The registry under registrations by the host, by executing handlers    *)
(* and by drained actions, and under submitted lines.                     *)
(***************************************************************************)
RegKeys == {CharKey("a"), CharKey("b"), Press("Enter")}

NextReg ==
    \/ \E n \in Names : HostRegister(n)
    \/ \E n \in Names : HostRegisterAsync(n)
    \/ HostSetUnknown
    \/ HostSetAsyncUnknown
    \/ HostClearUnknown
    \/ RunStart
    \/ \E n \in Names : SendRegister(n)
    \/ DrainRegister
    \/ DrainDone
    \/ CheckRunningCommands
    \/ ResultNone
    \/ PollNone
    \/ \E ev \in RegKeys : CanPress(ev, 1, MaxSubmits) /\ PollEvent(ev)
    \/ CheckExit
    \/ \E n \in Names : HRegister(n)
    \/ \E n \in Names : HRegisterAsync(n)
    \/ \E n \in Names : HDispatch(n)
    \/ HReturn

SpecReg == Init /\ [][NextReg]_vars

(***************************************************************************)
(* The event bus with the demo's listener: a subscriber that answers each  *)
(* event with a log action.                                                *)
(***************************************************************************)
\* the messages waiting in the two channels of the bus
InBus == Len(actionq) + Len(subq)

\* TerminalApp::subscribe_events, called by the host before run()
HostSubscribe ==
    /\ pc = "init" /\ stack = <<>>
    /\ ~subscribed
    /\ subscribed' = TRUE
    /\ UNCHANGED <<edVars, keyVars, regVars, actionq, dispatch_event, subq,
                   taskVars, callVars, loopVars, now, obsVars>>

\* the host calls info, debug, warn, error or critical before run()
HostLog(level) ==
    /\ pc = "init" /\ stack = <<>>
    /\ InBus < MaxQueue
    /\ LogCall(level, "direct", dispatch_event)
    /\ ret' = Returned("Log", FALSE, "")
    /\ UNCHANGED <<edVars, keyVars, regVars, actionq, dispatch_event,
                   subscribed, taskVars, callVars, loopVars, now>>

\* the host sends a log action through its clone of the action sender
SendLog(level) ==
    /\ pc = "init" /\ stack = <<>>
    /\ InBus < MaxQueue
    /\ actionq' = Append(actionq, LogAction(level, "sent"))
    /\ UNCHANGED <<edVars, keyVars, regVars, dispatch_event, subscribed, subq,
                   taskVars, callVars, loopVars, now, obsVars>>

\* the action start_event_listener sends for an event (the lines typed here
\* are none of the demo's "test", "hello", "echo ..." that get a second one)
ListenerAnswer(ev) ==
    IF ev.t = "UserConsoleInput"
    THEN LogAction("Info", "[Event] CommandPromptInput")
    ELSE IF ev.t = "TerminalLog"
    THEN LogAction("Debug", "[Event] TerminalLog")
    ELSE LogAction("Warn", "[Event] SubprocessLog")

\* start_event_listener: one turn of the while let Ok(event) = recv() loop
Listener ==
    /\ subscribed
    /\ subq # <<>>
    /\ subq' = Tail(subq)
    /\ actionq' = Append(actionq, ListenerAnswer(Head(subq)))
    /\ UNCHANGED <<edVars, keyVars, regVars, dispatch_event, subscribed,
                   taskVars, callVars, loopVars, now, obsVars>>

BusKeys == {CharKey("a"), CharKey(" "), Press("Enter")}

NextBus ==
    \/ HostSubscribe
    \/ \E level \in Levels : HostLog(level)
    \/ \E level \in Levels : SendLog(level)
    \/ Listener
    \/ RunStart
    \/ DrainLog
    \/ DrainDone
    \/ CheckRunningCommands
    \/ ResultNone
    \/ PollNone
    \/ \E ev \in BusKeys :
           /\ CanPress(ev, 1, MaxSubmits)
           /\ InBus < MaxQueue
           /\ PollEvent(ev)
    \/ CheckExit

SpecBus == Init /\ [][NextBus]_vars

\* run() is called, the loop goes on and the runtime schedules the listener
FairSpecBus ==
    /\ SpecBus
    /\ WF_vars(RunStart)
    /\ WF_vars(Listener)
    /\ WF_vars(DrainLog)
    /\ WF_vars(DrainDone)
    /\ WF_vars(CheckRunningCommands)
    /\ WF_vars(ResultNone)
    /\ WF_vars(PollNone)
    /\ WF_vars(CheckExit)

(***************************************************************************)
(* Async commands: the spawned tasks beside the loop.                      *)
(***************************************************************************)
\* CommandResult {command, output}
CommandResult(i, empty) == [task |-> i, cmd |-> tasks[i].cmd, empty |-> empty]

taskFrame == <<edVars, keyVars, regVars, busVars, running_commands, printed,
               callVars, loopVars, now, obsVars>>

\* the task of spawn_async_command: execute_async has returned its output
\* and tx.send puts the result in the channel
TaskSend(i) ==
    /\ i \in 1..Len(tasks)
    /\ tasks[i].st = "running"
    /\ \E empty \in BOOLEAN :
           resultq' = Append(resultq, CommandResult(i, empty))
    /\ tasks' = [tasks EXCEPT ![i].st = "sent"]
    /\ UNCHANGED taskFrame

\* the task returns, having sent its result or not
TaskFinishUnsent(i) ==
    /\ i \in 1..Len(tasks)
    /\ tasks[i].st \in {"running", "sent"}
    /\ tasks' = [tasks EXCEPT ![i].st = "finished"]
    /\ UNCHANGED <<resultq, taskFrame>>

\* the task returns: its JoinHandle is finished
TaskFinish(i) ==
    /\ i \in 1..Len(tasks)
    /\ tasks[i].st = "sent"
    /\ tasks' = [tasks EXCEPT ![i].st = "finished"]
    /\ UNCHANGED <<resultq, taskFrame>>

\* the handler panics in execute_async: the task ends without a result
TaskPanic(i) ==
    /\ i \in 1..Len(tasks)
    /\ tasks[i].st = "running"
    /\ tasks' = [tasks EXCEPT ![i].st = "panicked"]
    /\ UNCHANGED <<resultq, taskFrame>>

AsyncKeys == {CharKey("a"), Press("Enter")}

NextAsync ==
    \/ HostRegisterAsync(<<"a">>)
    \/ RunStart
    \/ DrainDone
    \/ CheckRunningCommands
    \/ ResultPrint
    \/ ResultNone
    \/ PollNone
    \/ \E ev \in AsyncKeys : CanPress(ev, 1, MaxTasks) /\ PollEvent(ev)
    \/ CheckExit
    \/ \E i \in 1..MaxTasks : TaskSend(i)
    \/ \E i \in 1..MaxTasks : TaskFinish(i)
    \/ \E i \in 1..MaxTasks : TaskPanic(i)

SpecAsync == Init /\ [][NextAsync]_vars

\* the loop goes on; nothing is assumed about the tasks
FairSpecAsync ==
    /\ SpecAsync
    /\ WF_vars(DrainDone)
    /\ WF_vars(CheckRunningCommands)
    /\ WF_vars(ResultPrint)
    /\ WF_vars(ResultNone)
    /\ WF_vars(PollNone)
    /\ WF_vars(CheckExit)

(***************************************************************************)
(* The life of run(): start, loop, the ways out.                           *)
(***************************************************************************)
\* run returns Err before the loop: enable_raw_mode()? fails, or raw mode
\* is on and execute!(EnableMouseCapture, cursor::Hide)? fails
RunStartFail ==
    /\ pc = "init" /\ stack = <<>>
    /\ \E raw_enabled \in BOOLEAN :
          term' = [raw |-> raw_enabled, mouse |-> FALSE]
    /\ pc' = "failed"
    /\ UNCHANGED <<edVars, keyVars, regVars, busVars, taskVars, callVars,
                   now, obsVars>>

\* run: poll(Duration::from_millis(0))? is an Err, which run returns
PollError ==
    /\ pc = "poll" /\ stack = <<>>
    /\ pc' = "failed"
    /\ UNCHANGED <<edVars, keyVars, regVars, busVars, taskVars, callVars,
                   term, now, obsVars>>

\* run: poll finds an event and event::read() is an Err; the let Ok(event)
\* pattern does not match, nothing is processed and the loop goes on
ReadError ==
    /\ pc = "poll" /\ stack = <<>>
    /\ out' = <<>>
    /\ ret' = Returned("read", FALSE, "Err")
    /\ pc' = "check"
    /\ UNCHANGED <<edVars, keyVars, regVars, busVars, taskVars, callVars,
                   term, now>>

\* run: process_event(event).await? is an Err, which run returns: the key
\* handler of a character, Left or Backspace has changed the input line and
\* render_input_line()? then fails to write to the terminal (it shows the
\* cursor and hands the error on)
RenderFails(ev) ==
    /\ pc = "poll" /\ stack = <<>>
    /\ ev.kind # "Release"
    /\ last_key_event # Some(ev)
    /\ CASE ev.code = "Char" /\ ~IsCtrlC(ev) /\ ~IsCtrlD(ev) ->
               LET pos == IF cursor_position > Len(current_input)
                          THEN Len(current_input) ELSE cursor_position
               IN /\ current_input' = InsertAt(current_input, pos, ev.ch)
                  /\ cursor_position' = pos + 1
         [] ev.code = "Left" ->
               /\ cursor_position > 0
               /\ cursor_position' = cursor_position - 1
               /\ UNCHANGED current_input
         [] ev.code = "Backspace" ->
               /\ cursor_position > 0
               /\ current_input' = RemoveCharAt(current_input, cursor_position - 1)
               /\ cursor_position' = cursor_position - 1
         [] OTHER -> FALSE
    /\ out' = <<>>
    /\ ret' = Returned("render", FALSE, "Err")
    /\ pc' = "failed"
    /\ UNCHANGED <<command_history, history_index, keyVars, regVars, busVars,
                   taskVars, callVars, term, now>>

RenderKeys == {CharKey("a"), Press("Left"), Press("Backspace")}

\* the states of the terminal state machine, by where run() is
Running == {"drain", "reap", "result", "poll", "check"}
Terminated == {"done", "failed"}

LifeKeys == {CharKey("a"), Press("Enter"), CtrlCKey, CtrlDKey}

NextLife ==
    \/ HostRegister(<<"a">>)
    \/ HostRegisterAsync(<<"a">>)
    \/ RunStart
    \/ RunStartFail
    \/ DrainDone
    \/ CheckRunningCommands
    \/ ResultPrint
    \/ ResultNone
    \/ PollNone
    \/ PollError
    \/ ReadError
    \/ \E ev \in RenderKeys : CanPress(ev, 1, MaxHist) /\ RenderFails(ev)
    \/ \E ev \in LifeKeys : CanPress(ev, 1, MaxHist) /\ PollEvent(ev)
    \/ CheckExit
    \/ Shutdown
    \/ HSetExit
    \/ HReturn
    \/ \E i \in 1..MaxTasks : TaskSend(i)
    \/ \E i \in 1..MaxTasks : TaskFinish(i)

SpecLife == Init /\ [][NextLife]_vars

\* the loop goes on, the shutdown code runs and a called sync handler
\* returns; nothing is assumed about tasks or the terminal
FairSpecLife ==
    /\ SpecLife
    /\ WF_vars(DrainDone)
    /\ WF_vars(CheckRunningCommands)
    /\ WF_vars(ResultPrint)
    /\ WF_vars(ResultNone)
    /\ WF_vars(PollNone)
    /\ WF_vars(CheckExit)
    /\ WF_vars(Shutdown)
    /\ WF_vars(HReturn)

(***************************************************************************)
(* Browsing the history of submitted lines.                                *)
(***************************************************************************)
HistKeys == {CharKey("a"), CharKey("b"), CharKey("c"),
             Press("Enter"), Press("Up"), Press("Down")}

NextHist ==
    \E ev \in HistKeys : CanPress(ev, 1, MaxLines) /\ CallProcessEvent(ev)

SpecHist == Init /\ [][NextHist]_vars

(***************************************************************************)
(* An async handler at work on the context it is given.                    *)
(***************************************************************************)
ctxFrame == <<edVars, keyVars, regVars, dispatch_event, subscribed, subq,
              running_commands, resultq, printed, callVars, loopVars, now, ret>>

\* the handler sets should_exit on the live console
CtxSetExitOnLive(i) ==
    /\ i \in 1..Len(tasks)
    /\ tasks[i].st = "running"
    /\ ~should_exit
    /\ should_exit' = TRUE
    /\ UNCHANGED <<edVars, last_ctrl_c, last_key_event, regVars, busVars,
                   taskVars, callVars, loopVars, now, obsVars>>

\* the handler of task i sets app.should_exit, app being its context
CtxSetExit(i) ==
    /\ i \in 1..Len(tasks)
    /\ tasks[i].st = "running"
    /\ ~tasks[i].ctx.should_exit
    /\ tasks' = [tasks EXCEPT ![i].ctx.should_exit = TRUE]
    /\ UNCHANGED <<ctxFrame, actionq, out>>

\* the handler of task i calls app.register_command(name, ..) on its context
CtxRegister(i, name) ==
    /\ i \in 1..Len(tasks)
    /\ tasks[i].st = "running"
    /\ name \notin tasks[i].ctx.commands
    /\ tasks' = [tasks EXCEPT ![i].ctx.commands = @ \cup {name}]
    /\ UNCHANGED <<ctxFrame, actionq, out>>

\* the handler of task i sends RegisterCommand(name, new handler) through
\* the action sender of its context, a clone of the live console's
CtxSendRegister(i, name) ==
    /\ i \in 1..Len(tasks)
    /\ tasks[i].st = "running"
    /\ Len(actionq) < MaxQueue
    /\ nextId <= MaxRegs
    /\ actionq' = Append(actionq, RegisterAction(name, nextId))
    /\ nextId' = nextId + 1
    /\ UNCHANGED <<edVars, keyVars, commands, unknown_command_handler,
                   async_unknown_command_handler, lastReg, dispatch_event,
                   subscribed, subq, taskVars, callVars, loopVars, now, obsVars>>

\* the handler of task i sends a log action through that sender
CtxSendLog(i, level) ==
    /\ i \in 1..Len(tasks)
    /\ tasks[i].st = "running"
    /\ Len(actionq) < MaxQueue
    /\ actionq' = Append(actionq, LogAction(level, "task"))
    /\ UNCHANGED <<edVars, keyVars, regVars, dispatch_event, subscribed, subq,
                   taskVars, callVars, loopVars, now, obsVars>>

\* the handler of task i calls app.info (debug, warn, error, critical) on
\* its context: print_log_entry writes to the context's stdout handle, and
\* the event goes to the context's own event channel, which nobody hears
CtxLog(i, level) ==
    /\ i \in 1..Len(tasks)
    /\ tasks[i].st = "running"
    /\ out' = <<TaskLogLine(i, level, "ctx")>>
    /\ UNCHANGED <<ctxFrame, actionq, tasks>>

CtxKeys == {CharKey("a"), Press("Enter")}

NextCtx ==
    \/ HostRegisterAsync(<<"a">>)
    \/ RunStart
    \/ DrainRegister
    \/ DrainLog
    \/ DrainDone
    \/ CheckRunningCommands
    \/ ResultPrint
    \/ ResultNone
    \/ PollNone
    \/ \E ev \in CtxKeys : CanPress(ev, 1, MaxSubmits) /\ PollEvent(ev)
    \/ CheckExit
    \/ \E i \in 1..MaxTasks : CtxSetExit(i)
    \/ \E i \in 1..MaxTasks : CtxRegister(i, <<"b">>)
    \/ \E i \in 1..MaxTasks : CtxSendRegister(i, <<"b">>)
    \/ \E i \in 1..MaxTasks : CtxSendLog(i, "Info")
    \/ \E i \in 1..MaxTasks : CtxLog(i, "Info")
    \/ \E i \in 1..MaxTasks : TaskSend(i)

SpecCtx == Init /\ [][NextCtx]_vars

(***************************************************************************)
(* Direct log calls beside log actions.                                    *)
(***************************************************************************)
\* the executing sync handler calls app.info (debug, warn, error, critical)
HLog(level) ==
    /\ stack # <<>>
    /\ InBus < MaxQueue
    /\ LogCall(level, "handler", dispatch_event)
    /\ UNCHANGED <<edVars, keyVars, regVars, actionq, dispatch_event,
                   subscribed, taskVars, callVars, loopVars, now, ret>>

LogKeys == {CharKey("a"), Press("Enter")}

NextLog ==
    \/ HostRegister(<<"a">>)
    \/ HostSubscribe
    \/ \E level \in {"Info", "Warn"} : HostLog(level)
    \/ Listener
    \/ RunStart
    \/ DrainLog
    \/ DrainDone
    \/ CheckRunningCommands
    \/ ResultNone
    \/ PollNone
    \/ \E ev \in LogKeys :
           /\ CanPress(ev, 1, MaxSubmits)
           /\ InBus < MaxQueue
           /\ PollEvent(ev)
    \/ CheckExit
    \/ \E level \in {"Info", "Warn"} : HLog(level)
    \/ HReturn

SpecLog == Init /\ [][NextLog]_vars

(***************************************************************************)
(* A subscriber that falls behind: the host logs a warning and then        *)
(* informational lines before run(), the listener reads an event only once *)
(* its last answer was taken by the drain loop.                            *)
(***************************************************************************)
\* the host calls warn (nothing unread by the subscriber) or info before run()
HostLogBurst ==
    /\ pc = "init" /\ stack = <<>>
    /\ LogCall(IF subq = <<>> THEN "Warn" ELSE "Info", "direct", dispatch_event)
    /\ ret' = Returned("Log", FALSE, "")
    /\ UNCHANGED <<edVars, keyVars, regVars, actionq, dispatch_event,
                   subscribed, taskVars, callVars, loopVars, now>>

\* start_event_listener: a turn of the recv() loop of a slow listener
SlowListener ==
    /\ actionq = <<>>
    /\ Listener

LagKeys == {CharKey("a"), Press("Enter")}

NextLag ==
    \/ HostSubscribe
    \/ HostLogBurst
    \/ SlowListener
    \/ RunStart
    \/ DrainLog
    \/ DrainDone
    \/ CheckRunningCommands
    \/ ResultNone
    \/ PollNone
    \/ \E ev \in LagKeys : CanPress(ev, 1, MaxSubmits) /\ PollEvent(ev)
    \/ CheckExit

SpecLag == Init /\ [][NextLag]_vars

(***************************************************************************)
(* Lines submitted to a sync command, with a subscriber.                   *)
(***************************************************************************)
EnterKeys == {CharKey("a"), CharKey(" "), Press("Enter"), Press("Up")}

NextEnter ==
    \/ HostRegister(<<"a">>)
    \/ HostSubscribe
    \/ RunStart
    \/ DrainDone
    \/ CheckRunningCommands
    \/ ResultNone
    \/ PollNone
    \/ \E ev \in EnterKeys : CanPress(ev, MaxLen, MaxHist) /\ PollEvent(ev)
    \/ CheckExit
    \/ HReturn

SpecEnter == Init /\ [][NextEnter]_vars

(***************************************************************************)
(* A terminal that reports the release of a key as well as its press.      *)
(***************************************************************************)
\* KeyEventKind::Release of the key of a press
Release(ev) == Key(ev.code, ev.ch, ev.mods, "Release")

PressedKeys ==
    {CharKey("a"), Press("Enter"), Press("Backspace"), Press("Up"),
     CtrlCKey, CtrlDKey}

NextRelease ==
    \/ HostRegister(<<"a">>)
    \/ \E ev \in PressedKeys :
           CanPress(ev, MaxLen, MaxSubmits) /\ CallProcessEvent(ev)
    \/ \E ev \in PressedKeys : CallProcessEvent(Release(ev))
    \/ HReturn

SpecRelease == Init /\ [][NextRelease]_vars

(***************************************************************************)
(* Typing: characters, Backspace and the cursor keys alone.                *)
(***************************************************************************)
TypeKeys ==
    {CharKey(c) : c \in Chars} \cup
    {Press(k) : k \in {"Backspace", "Left", "Right"}}

NextType ==
    \E ev \in TypeKeys : CanPress(ev, MaxLen + 1, 0) /\ CallProcessEvent(ev)

SpecType == Init /\ [][NextType]_vars

(***************************************************************************)
(* Browsing the history with Ctrl+C in between.                            *)
(***************************************************************************)
BrowseKeys ==
    {CharKey("a"), CharKey("b"), Press("Enter"), Press("Up"), CtrlCKey}

NextBrowse ==
    \E ev \in BrowseKeys : CanPress(ev, 1, MaxHist) /\ CallProcessEvent(ev)

SpecBrowse == Init /\ [][NextBrowse]_vars

(***************************************************************************)
(* The line editor and Ctrl+C.                                             *)
(***************************************************************************)
\* C1: in every state reached by key events the cursor is a position of
\* the input line: 0 <= cursor_position <= number of characters.
C1_CursorInRange ==
    /\ cursor_position >= 0
    /\ cursor_position <= Len(current_input)

\* a recalled history line with the cursor moved back into it
C1_Witness ==
    /\ history_index # None
    /\ Len(current_input) = 2
    /\ cursor_position = 1

\* a Ctrl+C press handled on an empty input line
C2_Step == CallProcessEvent(CtrlCKey) /\ current_input = <<>>

\* C2: on an empty input line a Ctrl+C with no interrupt recorded, or one
\* recorded 5 seconds ago or more, returns (false, press again) and
\* records the time; one less than 5 seconds after the recorded interrupt
\* returns (true, goodbye).
C2_DoubleCtrlC ==
    [][C2_Step =>
         IF last_ctrl_c = None
               \/ now - last_ctrl_c[1] >= CtrlCWindowSecs * TicksPerSec
         THEN /\ ret' = Returned("ctrl_c", FALSE, "press_again")
              /\ out' = <<LogLine("Info", "press_again")>>
              /\ last_ctrl_c' = Some(now)
         ELSE /\ ret' = Returned("ctrl_c", TRUE, "goodbye")
              /\ out' = <<LogLine("Warn", "goodbye")>>]_vars

\* the second Ctrl+C came later than the first, inside the window
C2_Witness ==
    /\ ret = Returned("ctrl_c", TRUE, "goodbye")
    /\ last_ctrl_c # None
    /\ now - last_ctrl_c[1] >= 2 * TicksPerSec

\* a Ctrl+C press handled on a non-empty input line
C3_Step == CallProcessEvent(CtrlCKey) /\ current_input # <<>>

\* the Ctrl+C that follows one that cleared the line, inside the window
C3_Follow ==
    /\ C2_Step
    /\ ret = Returned("ctrl_c", FALSE, "input_cleared")
    /\ now - last_ctrl_c[1] < CtrlCWindowSecs * TicksPerSec

\* C3: Ctrl+C on a non-empty input line never asks to quit, whenever the
\* earlier Ctrl+C was: it empties the line, puts the cursor at 0 and
\* records the time; the Ctrl+C that follows within 5 seconds asks to quit.
C3_ClearNeverExits ==
    /\ [][C3_Step =>
            /\ ret' = Returned("ctrl_c", FALSE, "input_cleared")
            /\ current_input' = <<>>
            /\ cursor_position' = 0
            /\ last_ctrl_c' = Some(now)]_vars
    /\ [][C3_Follow => ret'.quit]_vars

\* the line was cleared by a Ctrl+C and the next Ctrl+C asked to quit
C3_Witness ==
    /\ ret = Returned("ctrl_c", TRUE, "goodbye")
    /\ out = <<LogLine("Warn", "goodbye")>>
    /\ current_input = <<>>
    /\ last_ctrl_c # None
    /\ last_ctrl_c[1] > 0
    /\ now > last_ctrl_c[1]

(***************************************************************************)
(* The command registry.                                                   *)
(***************************************************************************)
Executing == {stack[i].h : i \in 1..Len(stack)}

\* C4 as stated: while the sync handler bound to N executes, N is absent
\* from the registry.
C4_AbsentWhileExecuting ==
    \A i \in 1..Len(stack) : stack[i].name \notin DOMAIN commands

\* C4 amended: a sync handler in execution is not in the registry (its
\* name is absent or bound to a handler registered during the call), so no
\* handler executes twice at once; when it returns it is bound to its name
\* again, no other binding changes, and the other names registered during
\* its call are bound.
C4_CheckoutCheckin ==
    /\ [](\A n \in DOMAIN commands : commands[n].id \notin Executing)
    /\ [](\A i, j \in 1..Len(stack) : i # j => stack[i].h # stack[j].h)
    /\ [](\A i \in 1..Len(stack) :
             stack[i].name \in DOMAIN commands =>
                 \E j \in i..Len(stack) : stack[i].name \in stack[j].regd)
    /\ [][HReturn =>
            /\ commands'[Top.name] = SyncHandler(Top.h)
            /\ \A m \in (DOMAIN commands) \ {Top.name} :
                   m \in DOMAIN commands' /\ commands'[m] = commands[m]
            /\ \A m \in Top.regd \ {Top.name} : m \in DOMAIN commands']_vars

\* a handler dispatched its own name, which found no command, registered
\* another name, and has returned: both names are bound
C4_Witness ==
    /\ stack = <<>>
    /\ lastCall.h # 0
    /\ dres.depth = 1
    /\ SplitWhitespace(dres.line) = <<lastCall.name>>
    /\ dres.h = 0
    /\ lastCall.name \in DOMAIN commands
    /\ commands[lastCall.name] = SyncHandler(lastCall.h)
    /\ \E m \in lastCall.regd : m # lastCall.name /\ m \in DOMAIN commands

\* C5: when no handler is executing, every name that was registered is
\* bound to the handler of its most recent registration.
C5_LastRegistrationWins ==
    stack = <<>> =>
        \A n \in Names :
            lastReg[n] # 0 => n \in DOMAIN commands /\ commands[n].id = lastReg[n]

\* a line is dispatched, by Enter or by an executing handler, and its
\* first token is no registered command
C6_Miss ==
    \E line \in {current_input} \cup Names :
        /\ \/ PollEvent(Press("Enter")) /\ current_input = line
           \/ HDispatch(line)
        /\ SplitWhitespace(line) # <<>>
        /\ SplitWhitespace(line)[1] \notin DOMAIN commands

\* C6: a dispatch that matches no command has exactly one producer of its
\* output: the async unknown handler if set, else the sync unknown handler
\* if set, else the built-in message; it touches neither registry, nor
\* executing handlers, nor tasks, and Enter prints that output and returns
\* normally.
C6_UnknownFallback ==
    [][C6_Miss =>
         /\ Cardinality(dres'.by) = 1
         /\ dres'.by \subseteq {"async_unknown", "sync_unknown", "builtin"}
         /\ async_unknown_command_handler # None => dres'.by = {"async_unknown"}
         /\ "sync_unknown" \in dres'.by <=>
                (async_unknown_command_handler = None
                    /\ unknown_command_handler # None)
         /\ "builtin" \in dres'.by <=>
                (async_unknown_command_handler = None
                    /\ unknown_command_handler = None)
         /\ UNCHANGED <<commands, stack, tasks, running_commands>>
         /\ stack = <<>> =>
                /\ out' = <<EchoLine(current_input), OutputLine(dres'.by)>>
                /\ ret' = Returned("Enter", should_exit, "")]_vars

\* with both hooks set, a submitted unknown line was answered by the async
\* hook alone
C6_Witness ==
    /\ unknown_command_handler # None
    /\ async_unknown_command_handler # None
    /\ dres.depth = 0
    /\ dres.by = {"async_unknown"}
    /\ out = <<EchoLine(dres.line), OutputLine({"async_unknown"})>>

(***************************************************************************)
(* The event bus.                                                          *)
(***************************************************************************)
\* C7: draining a log action prints its log line and publishes no event:
\* the subscriber's queue is as it was, and event dispatch is enabled
\* before and after.
C7_ActionSuppression ==
    /\ [][DrainLog =>
            /\ out' = <<LogLine(Head(actionq).t, Head(actionq).msg)>>
            /\ subq' = subq
            /\ dispatch_event /\ dispatch_event']_vars
    /\ [](dispatch_event = TRUE)

\* with a subscriber listening, a log action sent by the host has just
\* been drained and printed
C7_Witness ==
    /\ subscribed
    /\ ret.op = "LogAction"
    /\ \E level \in Levels : out = <<LogLine(level, "sent")>>

\* C8: with the listener answering every event by one log action, after
\* finitely many direct log calls, sent actions and submitted lines both
\* channels are eventually empty and stay empty.
C8_Quiescence == <>[](actionq = <<>> /\ subq = <<>>)

\* the listener's answer to the event of a direct log call has been
\* drained and printed, and nothing is left in either channel
C8_Witness ==
    /\ subscribed
    /\ ret.op = "LogAction"
    /\ out = <<LogLine("Debug", "[Event] TerminalLog")>>
    /\ actionq = <<>>
    /\ subq = <<>>

(***************************************************************************)
(* Async commands.                                                         *)
(***************************************************************************)
\* the number of results task i has put in the channel, printed or not
Delivered(i) ==
    Cardinality({k \in 1..Len(resultq) : resultq[k].task = i})
        + Cardinality({k \in 1..Len(printed) : printed[k] = i})

\* Enter on a line that names an async command
C9_Submit == PollEvent(Press("Enter")) /\ Spawns(current_input)

BeforePoll == {"drain", "reap", "result"}

\* C10: whatever the tasks do, also when none of them ever completes, the
\* loop gets from the start of an iteration to its poll and from the poll
\* to the end of the iteration; at the poll a key-press can be taken, and
\* taking it processes it and ends the iteration in that step.
C10_Responsive ==
    /\ (pc \in BeforePoll) ~> (pc = "poll")
    /\ (pc = "poll") ~> (pc = "check")
    /\ (pc = "check") ~> (pc = "drain")
    /\ [](pc = "poll" => ENABLED PollEvent(CharKey("a")))
    /\ [][PollEvent(CharKey("a")) =>
            /\ current_input' = InsertAt(current_input, cursor_position, "a")
            /\ pc' = "check"
            /\ UNCHANGED taskVars]_vars

\* two tasks are running, no result has come, and a typed character has
\* been processed by the iteration that is ending
C10_Witness ==
    /\ Len(tasks) = 2
    /\ \A i \in 1..2 : tasks[i].st = "running"
    /\ running_commands = <<1, 2>>
    /\ resultq = <<>> /\ printed = <<>>
    /\ pc = "check"
    /\ ret.op = "Char"
    /\ current_input = <<"a">>

\* the tasks in the order of their tx.send: those whose result the loop has
\* taken, then those whose result waits in the channel
SendOrder == printed \o [k \in 1..Len(resultq) |-> resultq[k].task]

\* C11: a task whose handler has returned has sent one result, tagged with
\* its command line; the loop takes the results in the order they were
\* sent, each once, printing the output when it is taken (an empty output
\* has no line); and while the loop runs every sent result is eventually
\* taken.
C11_ResultDelivery ==
    /\ [](\A i \in 1..Len(tasks) :
             /\ Cardinality({k \in 1..Len(SendOrder) : SendOrder[k] = i})
                    = IF tasks[i].st \in {"sent", "finished"} THEN 1 ELSE 0
             /\ \A k \in 1..Len(resultq) :
                    resultq[k].task = i => resultq[k].cmd = tasks[i].cmd)
    /\ [][\/ SendOrder' = SendOrder
          \/ \E i \in 1..Len(tasks) :
                 /\ tasks[i].st = "running" /\ tasks'[i].st = "sent"
                 /\ SendOrder' = Append(SendOrder, i)
                 /\ printed' = printed]_vars
    /\ [][printed' # printed =>
            /\ resultq # <<>>
            /\ printed' = Append(printed, Head(resultq).task)
            /\ out' = IF Head(resultq).empty THEN <<>>
                      ELSE <<ResultLine(Head(resultq).task)>>]_vars
    /\ \A i \in 1..MaxTasks :
           (i <= Len(tasks) /\ tasks[i].st \in {"sent", "finished"})
               ~> (\E k \in 1..Len(printed) : printed[k] = i)

\* the second task sent its result before the first; both results were
\* printed, the second task's first
C11_Witness ==
    /\ Len(tasks) = 2
    /\ \A i \in 1..2 : tasks[i].st = "finished"
    /\ printed = <<2, 1>>
    /\ resultq = <<>>
    /\ out = <<ResultLine(1)>>

(***************************************************************************)
(* The life of run().                                                      *)
(***************************************************************************)
\* the tasks the tracker records
Tracked == {running_commands[k] : k \in 1..Len(running_commands)}

\* C12: when run has returned through the shutdown code, no task recorded
\* in the tracker is still running unaborted.
C12_AbortOnShutdown ==
    pc = "done" => \A i \in Tracked : tasks[i].st # "running"

\* C13: whenever run has returned, raw mode and mouse capture are off.
C13_TerminalRestored ==
    pc \in Terminated => ~term.raw /\ ~term.mouse

\* C14: a Ctrl+D processed by the loop takes run to the shutdown code in
\* that step, with the quit answer, changing neither the input line, the
\* history, the tasks nor the results.
C14_CtrlDExits ==
    [][PollEvent(CtrlDKey) =>
          /\ pc' = "shutdown"
          /\ ret' = Returned("ctrl_d", TRUE, "")
          /\ UNCHANGED <<edVars, taskVars, regVars>>]_vars

\* Ctrl+D has ended the loop with text in the input line, a task running
\* and a result not yet taken
C14_Witness ==
    /\ pc = "shutdown"
    /\ ret = Returned("ctrl_d", TRUE, "")
    /\ current_input # <<>>
    /\ \E i \in Tracked : tasks[i].st = "running"
    /\ resultq # <<>>

\* C15: once a sync handler has set should_exit it stays set; when the
\* handler has returned, run is in the shutdown code or has returned, no
\* key event is processed any more, and run returns.
C15_ExitFlag ==
    /\ [](should_exit /\ stack = <<>> => pc \in {"shutdown", "done"})
    /\ [][should_exit => should_exit']_vars
    /\ [][should_exit /\ stack = <<>> =>
            UNCHANGED <<edVars, keyVars, regVars, ret>>]_vars
    /\ should_exit ~> (pc = "done")

\* the handler that set should_exit has returned and run has returned
\* after restoring the terminal
C15_Witness ==
    /\ should_exit
    /\ lastCall.h # 0
    /\ ret = Returned("Enter", TRUE, "")
    /\ pc = "done"
    /\ ~term.raw

(***************************************************************************)
(* Submitting and the history.                                             *)
(***************************************************************************)
\* C16: Enter on an input line that is empty or all whitespace returns
\* "do not quit" and changes nothing: not the line, cursor, history or
\* history_index, not the registry, no dispatch, no event, no task.
C16_EmptySubmitNoOp ==
    [][/\ PollEvent(Press("Enter"))
       /\ \A k \in 1..Len(current_input) : current_input[k] = " "
       =>
          /\ UNCHANGED <<edVars, keyVars, regVars, busVars, taskVars, callVars>>
          /\ out' = <<>>
          /\ ret' = Returned("Enter", FALSE, "")
          /\ pc' = "check"]_vars

\* with a subscriber listening, Enter was pressed on a line holding one
\* blank: the blank is still there and nothing was submitted
C16_Witness ==
    /\ subscribed
    /\ current_input = <<" ">>
    /\ cursor_position = 1
    /\ ret = Returned("Enter", FALSE, "")
    /\ command_history = <<>>
    /\ dres = NoDispatch
    /\ subq = <<>> /\ actionq = <<>>
    /\ pc = "check"

\* the history entry with 0-based index i
Entry(i) == command_history[i + 1]

\* the step leaves the console browsing at entry i: the buffer is that
\* entry, the cursor is at its end
Shows(i) ==
    /\ history_index' = Some(i)
    /\ current_input' = Entry(i)
    /\ cursor_position' = Len(Entry(i))
    /\ command_history' = command_history

\* C17: with n lines in the history, the first Up (not browsing) selects
\* entry n-1 and each further Up the entry before, so the k-th Up in a row
\* leaves the buffer equal to entry n-k with the cursor at its end; a Down
\* from entry i < n-1 leaves the buffer equal to entry i+1.
C17_HistoryRoundTrip ==
    /\ [][/\ CallProcessEvent(Press("Up"))
          /\ command_history # <<>>
          /\ history_index = None
          => Shows(Len(command_history) - 1)]_vars
    /\ [][/\ CallProcessEvent(Press("Up"))
          /\ history_index # None
          /\ history_index[1] >= 1
          => Shows(history_index[1] - 1)]_vars
    /\ [][/\ CallProcessEvent(Press("Down"))
          /\ history_index # None
          /\ history_index[1] < Len(command_history) - 1
          => Shows(history_index[1] + 1)]_vars

\* a, b, c were submitted; Up was pressed until a was shown (entry 0 is
\* only reached by three Ups) and Down then gave b
C17_Witness ==
    /\ command_history = << <<"a">>, <<"b">>, <<"c">> >>
    /\ history_index = Some(1)
    /\ current_input = <<"b">>
    /\ cursor_position = 1
    /\ ret = Returned("Down", FALSE, "")

\* C18: a step either leaves the history as it is or appends the submitted
\* input line, as typed, behind the existing entries; every entry has a
\* character that is not a blank.
C18_HistoryAppendOnly ==
    /\ [][\/ command_history' = command_history
          \/ /\ command_history' = command_history \o <<current_input>>
             /\ \E k \in 1..Len(current_input) : current_input[k] # " "]_vars
    /\ [](\A i \in 1..Len(command_history) :
             \E k \in 1..Len(command_history[i]) : command_history[i][k] # " ")

\* two lines were submitted; the first is kept as typed, with its leading
\* blank, in front of the second
C18_Witness ==
    /\ command_history = << <<" ", "a">>, <<"a">> >>
    /\ ret.op = "Enter"
    /\ current_input = <<>>

(***************************************************************************)
(* The context of an async handler.                                        *)
(***************************************************************************)
\* a step in which the handler of some task changes its context or sends
\* an action
CtxStep ==
    \E i \in 1..Len(tasks) :
        /\ tasks[i].st = "running"
        /\ \/ tasks'[i].ctx # tasks[i].ctx
           \/ CtxSendRegister(i, <<"b">>)
           \/ CtxSendLog(i, "Info")

C20_OnlyLoopWrites ==
    \A k \in 1..Len(out) : out[k].k # "tasklog"

(***************************************************************************)
(* Logging, actions and events.                                            *)
(***************************************************************************)
\* C21: a direct log call, by the host before run or by an executing sync
\* handler, also after log actions were handled, prints its one log line
\* and sends one TerminalLog event of that level and message, which a
\* subscriber receives; between operations event dispatch is enabled.
C21_DirectLogPublishes ==
    /\ [][\A level \in Levels :
            HostLog(level) \/ HLog(level) =>
                LET msg == IF stack = <<>> THEN "direct" ELSE "handler"
                IN /\ out' = <<LogLine(level, msg)>>
                   /\ subscribed => subq' = Append(subq, TerminalLog(level, msg))
                   /\ ~subscribed => subq' = subq
                   /\ UNCHANGED <<actionq, dispatch_event>>]_vars
    /\ [](dispatch_event = TRUE)

\* the last operation that returned was the drain of a log action; the
\* handler of the line submitted since has logged a warning, which was
\* printed and is the newest event of the subscriber
C21_Witness ==
    /\ subscribed
    /\ ret = Returned("LogAction", FALSE, "")
    /\ stack # <<>>
    /\ out = <<LogLine("Warn", "handler")>>
    /\ subq # <<>>
    /\ subq[Len(subq)] = TerminalLog("Warn", "handler")

\* C22: the drain ends only on an empty action channel, each
\* RegisterCommand(name, handler) it takes from the head binds name to that
\* handler in the live registry in place of any earlier binding, the
\* registry is not touched between the drain and the poll of the iteration,
\* and a line submitted at that poll which names a sync command runs the
\* handler the registry then holds.
C22_RegistrationByAction ==
    /\ [][pc = "drain" /\ pc' # "drain" => actionq = <<>> /\ pc' = "reap"]_vars
    /\ [][pc = "drain" /\ actionq # <<>> /\ actionq' # actionq /\ Len(actionq') <= Len(actionq)
            /\ Head(actionq).t = "RegisterCommand" =>
              /\ actionq' = Tail(actionq)
              /\ pc' = "drain"
              /\ commands' = Put(commands, Head(actionq).name,
                                 SyncHandler(Head(actionq).h))]_vars
    /\ [][(pc = "reap" \/ pc = "result") =>
              /\ commands' = commands
              /\ pc' \in {"reap", "result", "poll"}]_vars
    /\ [][pc = "poll" /\ stack = <<>> /\ stack' # <<>> =>
              /\ stack'[1].name \in DOMAIN commands
              /\ stack'[1].h = commands[stack'[1].name].id
              /\ dres'.h = stack'[1].h]_vars

\* the last operation that returned was the drain of a RegisterCommand
\* action, which bound a to handler 2 in place of handler 1; the line a
\* submitted at the poll that followed is being run by handler 2
C22_Witness ==
    /\ pc = "poll"
    /\ ret = Returned("RegisterCommand", FALSE, "")
    /\ Len(stack) = 1
    /\ stack[1].name = <<"a">> /\ stack[1].h = 2
    /\ lastReg[<<"a">>] = 2
    /\ nextId = 3
    /\ DOMAIN commands = {}
    /\ actionq = <<>>

\* the unread events of the subscriber after ev was published
C23_After(ev) ==
    IF Len(subq) < EventCap THEN Append(subq, ev) ELSE Append(Tail(subq), ev)

\* C23: publishing never blocks or fails: a log call of the host and the
\* handling of Enter can be taken whatever the subscriber has left unread,
\* and run never fails; without a subscriber a publication leaves every
\* field of the console as it is; a subscriber never has more than 256
\* events unread, and a publication to a subscriber that has 256 unread
\* drops its oldest unread event and adds the new one.
C23_FireAndForget ==
    /\ [](pc = "init" /\ stack = <<>> => ENABLED HostLogBurst)
    /\ [](pc = "poll" /\ stack = <<>> => ENABLED PollEvent(Press("Enter")))
    /\ [](pc # "failed")
    /\ [](Len(subq) <= EventCap /\ (~subscribed => subq = <<>>))
    /\ [][HostLogBurst /\ ~subscribed =>
              UNCHANGED <<edVars, keyVars, regVars, busVars, taskVars,
                          callVars, loopVars>>]_vars
    /\ [][HostLogBurst /\ subscribed =>
              subq' = C23_After(TerminalLog(IF subq = <<>> THEN "Warn" ELSE "Info",
                                            "direct"))]_vars
    /\ [][pc = "poll" /\ command_history' # command_history =>
              /\ subscribed => subq' = C23_After(UserConsoleInput(current_input))
              /\ ~subscribed => subq' = subq
              /\ pc' = "check"]_vars

\* before run, with nothing read by the subscriber since it subscribed, the
\* host has logged more than 256 lines: the warning logged first is no
\* longer among the 256 unread events
C23_Witness ==
    /\ pc = "init"
    /\ subscribed
    /\ actionq = <<>>
    /\ ret = Returned("Log", FALSE, "")
    /\ Len(subq) = EventCap
    /\ \A k \in 1..EventCap : subq[k] = TerminalLog("Info", "direct")

(***************************************************************************)
(* The iteration of the run loop.                                          *)
(***************************************************************************)
\* the order of the phases of an iteration
C24_Order ==
    {<<"init", "drain">>, <<"drain", "reap">>, <<"reap", "result">>,
     <<"result", "poll">>, <<"poll", "check">>, <<"check", "drain">>,
     <<"check", "shutdown">>, <<"shutdown", "done">>}

\* C24: an action leaves the action channel only in the drain, from the
\* head, and is handled in that step (a registration binds its name, a log
\* action prints its line); actions that arrive queue up behind the pending
\* ones; the drain ends only on an empty channel and is followed by the
\* tracker reap, the result drain and the poll, in this order; during the
\* drain the tracker and the editor are not touched and no result is taken.
C24_ActionDrain ==
    /\ [][Len(actionq') < Len(actionq) =>
              /\ pc = "drain" /\ pc' = "drain"
              /\ actionq' = Tail(actionq)
              /\ Head(actionq).t = "RegisterCommand" =>
                     commands' = Put(commands, Head(actionq).name,
                                     SyncHandler(Head(actionq).h))
              /\ Head(actionq).t \in Levels =>
                     out' = <<LogLine(Head(actionq).t, Head(actionq).msg)>>]_vars
    /\ [][Len(actionq') >= Len(actionq) =>
              SubSeq(actionq', 1, Len(actionq)) = actionq]_vars
    /\ [][pc = "drain" /\ pc' # "drain" => actionq = <<>>]_vars
    /\ [][pc' # pc => <<pc, pc'>> \in C24_Order]_vars
    /\ [][pc = "drain" =>
              /\ UNCHANGED <<running_commands, printed, edVars>>
              /\ Len(resultq') >= Len(resultq)]_vars
    /\ [][running_commands' # running_commands /\ pc # "poll" =>
              pc = "reap" /\ pc' = "result"]_vars
    /\ [][resultq' # resultq /\ Len(resultq') < Len(resultq) => pc = "result"]_vars
    /\ [][edVars' # edVars => pc = "poll"]_vars

\* the drain has bound b to the handler a task sent and has printed the log
\* line a task sent; the channel is empty and the tracker reap comes next
C24_Witness ==
    /\ pc = "reap"
    /\ actionq = <<>>
    /\ ret = Returned("LogAction", FALSE, "")
    /\ out = <<LogLine("Info", "task")>>
    /\ <<"b">> \in DOMAIN commands
    /\ commands[<<"b">>] = SyncHandler(lastReg[<<"b">>])

\* C25: a result leaves the result channel only at the result step of an
\* iteration, from the head, and is printed in that step, which ends the
\* result step: the results behind it stay in the channel in their order
\* until the result step of a later iteration, which is reached again only
\* through the poll, the exit check, the action drain and the tracker reap.
C25_BoundedResultDrain ==
    /\ [][Len(resultq') < Len(resultq) =>
              /\ pc = "result" /\ pc' = "poll"
              /\ resultq' = Tail(resultq)
              /\ printed' = Append(printed, Head(resultq).task)
              /\ out' = IF Head(resultq).empty THEN <<>>
                        ELSE <<ResultLine(Head(resultq).task)>>]_vars
    /\ [][Len(resultq') >= Len(resultq) =>
              SubSeq(resultq', 1, Len(resultq)) = resultq]_vars
    /\ [][pc = "result" /\ pc' # pc => pc' = "poll"]_vars
    /\ [][pc' = "result" /\ pc' # pc => pc = "reap"]_vars
    /\ [][pc = "poll" /\ pc' # pc => pc' = "check"]_vars

\* two results were pending at the result step; the first was printed, the
\* second is still in the channel at the poll of the same iteration
C25_Witness ==
    /\ pc = "poll"
    /\ ret = Returned("CommandResult", FALSE, "")
    /\ printed = <<1>>
    /\ out = <<ResultLine(1)>>
    /\ Len(resultq) = 1
    /\ resultq[1].task = 2
    /\ tasks[1].st = "finished" /\ tasks[2].st = "finished"

(***************************************************************************)
(* Failures of the terminal.                                               *)
(***************************************************************************)
\* C26: when the poll or the read of the next terminal event fails, run
\* leaves the loop for its shutdown code, which restores the terminal and
\* prints the exit message before run returns.
C26_ReadFailureShutsDown ==
    [][PollError \/ ReadError => pc' = "shutdown"]_vars

\* C27: when the rendering of the input line fails in the handler of a key,
\* the loop stays in its running states and run does not return.
C27_RenderFailureContained ==
    [][\A ev \in RenderKeys : RenderFails(ev) => pc' \in Running]_vars

(***************************************************************************)
(* The filters of process_event and the order of Enter.                    *)
(***************************************************************************)
\* the keys whose handler names them in its answer
C28_Keys == {"Left", "Right", "Backspace", "Up", "Down"}

\* C28: a press of a key other than Ctrl+C and Ctrl+D that repeats the key
\* event processed just before is ignored: it leaves the input line, the
\* cursor, the history and the key state as they are and does not quit.
C28_KeyDeduplication ==
    [][\A k \in C28_Keys :
          ret.op = k /\ CallProcessEvent(Press(k)) =>
              /\ UNCHANGED <<edVars, keyVars>>
              /\ ~ret'.quit]_vars

\* the input line has a character that is no white space
C29_NonBlank == \E k \in 1..Len(current_input) : current_input[k] # " "

\* C29: Enter on a line that is not blank appends the line as typed to the
\* history, sends one UserConsoleInput event with that line and dispatches
\* it; while the sync handler of the line executes, the line is the last
\* history entry and its event the last one sent; when handle_enter_key
\* returns, the input line is empty, the cursor at 0 and no history entry
\* selected.
C29_EnterOrder ==
    /\ [][PollEvent(Press("Enter")) /\ C29_NonBlank =>
              /\ command_history' = Append(command_history, current_input)
              /\ subscribed => subq' = Append(subq, UserConsoleInput(current_input))
              /\ ~subscribed => subq' = subq
              /\ dres'.line = current_input]_vars
    /\ [](stack # <<>> =>
              /\ command_history # <<>>
              /\ command_history[Len(command_history)] = current_input
              /\ dres.line = current_input
              /\ subscribed =>
                     /\ subq # <<>>
                     /\ subq[Len(subq)] = UserConsoleInput(current_input))
    /\ [][\/ PollEvent(Press("Enter")) /\ C29_NonBlank /\ stack' = <<>>
          \/ HReturn /\ Len(stack) = 1
          => /\ current_input' = <<>>
             /\ cursor_position' = 0
             /\ history_index' = None
             /\ ret'.op = "Enter"]_vars

\* the sync handler of a executes for the line "a " recalled from the
\* history and submitted again: the line is in the history twice, untrimmed,
\* and the subscriber has the event of either submission
C29_Witness ==
    /\ Len(stack) = 1
    /\ stack[1].name = <<"a">>
    /\ current_input = <<"a", " ">>
    /\ history_index # None
    /\ command_history = <<<<"a", " ">>, <<"a", " ">>>>
    /\ subq = <<UserConsoleInput(<<"a", " ">>), UserConsoleInput(<<"a", " ">>)>>

\* C30: process_event on the release of a key, Ctrl+C, Ctrl+D and Enter
\* among them, answers "do not quit" and leaves the input line, the cursor,
\* the history and its index, last_ctrl_c, last_key_event, should_exit, the
\* registry, the channels and the tasks as they are.
C30_ReleaseIgnored ==
    [][\A ev \in PressedKeys :
          CallProcessEvent(Release(ev)) =>
              /\ ~ret'.quit
              /\ UNCHANGED <<edVars, keyVars, regVars, busVars, taskVars,
                             callVars, loopVars>>]_vars

\* a release was processed last, with a typed on the input line after a
\* submitted line and a first Ctrl+C, and a registered as a command
C30_Witness ==
    /\ ret = Returned("Release", FALSE, "")
    /\ current_input = <<"a">>
    /\ cursor_position = 1
    /\ command_history = <<<<"a">>>>
    /\ last_ctrl_c # None
    /\ last_key_event = Some(CtrlCKey)
    /\ <<"a">> \in DOMAIN commands

C32_Panicked(i) == i <= Len(tasks) /\ tasks[i].st = "panicked"

\* C32: the step in which a task panics changes nothing but the state of
\* that task: no result is sent, the console prints nothing, the loop is
\* where it was; a panicked task never has a result in the channel or
\* printed; run does not fail; after a reap no panicked task is in the
\* tracker; and the result of a task that has sent one is eventually
\* printed also when another task has panicked.
C32_CrashedTaskInvisible ==
    /\ [][\A i \in 1..MaxTasks :
              i <= Len(tasks) /\ tasks[i].st # "panicked" /\ tasks'[i].st = "panicked" =>
                  /\ tasks[i].st = "running"
                  /\ tasks' = [tasks EXCEPT ![i].st = "panicked"]
                  /\ UNCHANGED <<resultq, printed, out, ret, pc, term,
                                 running_commands, actionq, edVars, keyVars>>]_vars
    /\ [](\A i \in 1..MaxTasks : C32_Panicked(i) => Delivered(i) = 0)
    /\ [](pc # "failed")
    /\ [][pc = "reap" /\ pc' # pc =>
              \A k \in 1..Len(running_commands') :
                  tasks[running_commands'[k]].st # "panicked"]_vars
    /\ \A i, j \in 1..MaxTasks :
           (C32_Panicked(j) /\ i <= Len(tasks) /\ tasks[i].st \in {"sent", "finished"})
               ~> (\E k \in 1..Len(printed) : printed[k] = i)

\* the first task has panicked and the second has finished; the loop has
\* printed the result of the second, the tracker is empty after a reap and
\* the loop goes on
C32_Witness ==
    /\ Len(tasks) = 2
    /\ tasks[1].st = "panicked" /\ tasks[2].st = "finished"
    /\ printed = <<2>>
    /\ resultq = <<>>
    /\ running_commands = <<>>
    /\ pc = "result"

(***************************************************************************)
(* The history and the editor, key by key.                                 *)
(***************************************************************************)
\* C33: Up with an empty history and Up at the oldest entry change nothing
\* of the editor; Down at the newest entry ends the browsing with an empty
\* input line and the cursor at 0; Down while not browsing changes nothing;
\* an Up or Down that selects another entry puts that entry in the input
\* line and the cursor at its end, and none of them changes the history.
C33_HistoryEdges ==
    /\ [][CallProcessEvent(Press("Up")) /\ command_history = <<>> =>
              UNCHANGED edVars]_vars
    /\ [][CallProcessEvent(Press("Up")) /\ history_index = Some(0) =>
              UNCHANGED edVars]_vars
    /\ [][/\ CallProcessEvent(Press("Down"))
          /\ history_index = Some(Len(command_history) - 1)
          => /\ history_index' = None
             /\ current_input' = <<>>
             /\ cursor_position' = 0]_vars
    /\ [][CallProcessEvent(Press("Down")) /\ history_index = None =>
              UNCHANGED edVars]_vars
    /\ [][/\ CallProcessEvent(Press("Up")) \/ CallProcessEvent(Press("Down"))
          /\ history_index' # history_index
          /\ history_index' # None
          => /\ history_index'[1] < Len(command_history)
             /\ current_input' = command_history[history_index'[1] + 1]
             /\ cursor_position' = Len(current_input')]_vars
    /\ [][CallProcessEvent(Press("Up")) \/ CallProcessEvent(Press("Down")) =>
              command_history' = command_history]_vars

\* Up was processed with a typed and nothing in the history: the input
\* line and the cursor are as they were
C33_Witness ==
    /\ ret = Returned("Up", FALSE, "")
    /\ command_history = <<>>
    /\ history_index = None
    /\ current_input = <<"a">>
    /\ cursor_position = 1

\* the input line after the step is the one before it without the
\* character at 0-based index i
C34_Removed(i) ==
    /\ Len(current_input') = Len(current_input) - 1
    /\ \A k \in 1..Len(current_input') :
           current_input'[k] = IF k <= i THEN current_input[k]
                               ELSE current_input[k + 1]

\* the input line after the step is the one before it with c put in at
\* 0-based index i
C34_Inserted(i, c) ==
    /\ Len(current_input') = Len(current_input) + 1
    /\ \A k \in 1..Len(current_input') :
           current_input'[k] = IF k <= i THEN current_input[k]
                               ELSE IF k = i + 1 THEN c
                               ELSE current_input[k - 1]

\* C34: a typed character is put in at index cursor_position, the
\* characters before and behind it in their order, and the cursor moves on
\* by one; Backspace takes out the character at index cursor_position - 1
\* and moves the cursor back by one, and does nothing at cursor 0; Left and
\* Right leave the line alone and move the cursor by one, not below 0 and
\* not beyond the length of the line.
C34_InsertAndBackspace ==
    /\ [][\A c \in Chars :
              CallProcessEvent(CharKey(c)) =>
                  /\ C34_Inserted(cursor_position, c)
                  /\ cursor_position' = cursor_position + 1]_vars
    /\ [][CallProcessEvent(Press("Backspace")) /\ cursor_position > 0 =>
              /\ C34_Removed(cursor_position - 1)
              /\ cursor_position' = cursor_position - 1]_vars
    /\ [][CallProcessEvent(Press("Backspace")) /\ cursor_position = 0 =>
              UNCHANGED <<current_input, cursor_position>>]_vars
    /\ [][CallProcessEvent(Press("Left")) =>
              /\ current_input' = current_input
              /\ cursor_position' = IF cursor_position = 0 THEN 0
                                    ELSE cursor_position - 1]_vars
    /\ [][CallProcessEvent(Press("Right")) =>
              /\ current_input' = current_input
              /\ cursor_position' = IF cursor_position = Len(current_input)
                                    THEN cursor_position
                                    ELSE cursor_position + 1]_vars

\* a blank was typed with the cursor in front of the a of the line
C34_Witness ==
    /\ ret = Returned("Char", FALSE, "")
    /\ current_input = <<" ", "a">>
    /\ cursor_position = 1

\* C35: while the console is browsing, history_index is the index of an
\* entry of the history, which is then not empty; the entry read by Up and
\* Down exists, and the length - 1 of handle_down_key is not below 0.
C35_IndexInRange ==
    /\ [](history_index # None =>
              /\ history_index[1] >= 0
              /\ history_index[1] < Len(command_history)
              /\ command_history # <<>>)
    /\ [][/\ CallProcessEvent(Press("Up")) \/ CallProcessEvent(Press("Down"))
          /\ history_index' # None
          => history_index'[1] + 1 \in DOMAIN command_history]_vars
    /\ [][CallProcessEvent(Press("Down")) /\ history_index # None =>
              Len(command_history) - 1 >= 0]_vars

\* three lines were submitted and Up has selected the newest: the index is
\* the length of the history less one
C35_Witness ==
    /\ ret = Returned("Up", FALSE, "")
    /\ Len(command_history) = 3
    /\ history_index = Some(2)
    /\ current_input = command_history[3]

\* C36: Ctrl+C changes neither the history nor history_index; Up on the
\* input line Ctrl+C has emptied while entry i was selected selects entry
\* i - 1, and changes nothing when i is 0.
C36_CtrlCKeepsBrowsing ==
    /\ [][CallProcessEvent(CtrlCKey) =>
              UNCHANGED <<history_index, command_history>>]_vars
    /\ [][/\ CallProcessEvent(Press("Up"))
          /\ ret.op = "ctrl_c"
          /\ history_index # None
          /\ history_index[1] >= 1
          => /\ history_index' = Some(history_index[1] - 1)
             /\ current_input' = command_history[history_index[1]]
             /\ cursor_position' = Len(current_input')]_vars
    /\ [][/\ CallProcessEvent(Press("Up"))
          /\ ret.op = "ctrl_c"
          /\ history_index = Some(0)
          => UNCHANGED edVars]_vars

\* a and b were submitted, Up selected b, Ctrl+C emptied the input line
\* and the Up that followed has selected a
C36_Witness ==
    /\ ret = Returned("Up", FALSE, "")
    /\ command_history = << <<"a">>, <<"b">> >>
    /\ history_index = Some(0)
    /\ current_input = <<"a">>
    /\ last_ctrl_c # None
    /\ last_key_event = Some(CtrlCKey)

\* C37: a task becomes finished only after it has sent its result, which
\* is then in the result channel or printed; so every spawned task that
\* has not panicked is in the tracker, or its result is in the result
\* channel, or its result has been printed.
C37_ReapLosesNoResult ==
    /\ [][\A i \in 1..MaxTasks :
              i <= Len(tasks) /\ tasks[i].st # "finished" /\ tasks'[i].st = "finished" =>
                  tasks[i].st = "sent" /\ Delivered(i) = 1]_vars
    /\ [](\A i \in 1..Len(tasks) :
              tasks[i].st # "panicked" =>
                  \/ i \in Tracked
                  \/ \E k \in 1..Len(resultq) : resultq[k].task = i
                  \/ \E k \in 1..Len(printed) : printed[k] = i)

\* the only task has finished and a reap has removed its entry from the
\* tracker; its result waits in the result channel
C37_Witness ==
    /\ Len(tasks) = 1
    /\ tasks[1].st = "finished"
    /\ running_commands = <<>>
    /\ Len(resultq) = 1 /\ resultq[1].task = 1
    /\ printed = <<>>
    /\ pc = "result"

=============================================================================
